---- MODULE Spec2Model ----
(***************************************************************************)
(* Model of the document-to-vector pipeline of local-knowledge-search:     *)
(*   - EmbeddingWorkerManager and the embedding Web Worker (request /      *)
(*     response protocol with correlation ids, timeouts, termination);     *)
(*   - EmbeddingService (lazy initialization, batch embedding);            *)
(*   - VectorStorageService (bulk insert of vector records);               *)
(*   - KnowledgeSearchService (lazy initialization, processDocument,       *)
(*     search).                                                            *)
(* Each component has its own specification over the shared variables;     *)
(* the components a specification does not exercise stay in their          *)
(* constructed state.                                                      *)
(***************************************************************************)
EXTENDS Integers, Sequences, FiniteSets, TLC

(***************************************************************************)
(* Bounds of the model.                                                    *)
(***************************************************************************)
\* manager API calls made in one behaviour of SpecWorker
MaxCalls == 2
\* chunks of a GENERATE_BATCH request in SpecWorker
MaxBatchChunks == 1
\* manager API calls made in one behaviour of SpecManager
MaxMgrCalls == 3

\* EmbeddingService API calls made in one behaviour of SpecEmbed
MaxEsCalls == 2
\* chunks of one generateBatchEmbeddings call in SpecEmbed
MaxChunks == 6

\* KnowledgeSearchService API calls made in one behaviour of Spec
MaxKsCalls == 2
\* chunks of a document processed in Spec
MaxDocChunks == 2

\* CHUNKING_CONFIG, scaled down from 500 / 50 / 50 words so that texts of a
\* few words reach the sliding window: the window is longer than the
\* overlap and not shorter than the single-chunk threshold, as in the defaults
maxWordsPerChunk == 3
overlapWords == 1
minChunkWords == 2
\* characters of a text given to chunkText
MaxTextLen == 11

\* VectorStorageService API calls made in one behaviour of SpecStore
MaxStoreCalls == 3
\* chunks given to one storeEmbeddings call in SpecStore
MaxStoreChunks == 1
\* the latest reading of the clock (new Date()); readings start at 0
MaxTime == 2
\* VectorStorageService API calls made in one behaviour of SpecSearch and
\* of SpecCatalog
MaxTableCalls == 2
\* records of the table when the service is constructed
MaxStored == 3
\* rows listDocuments asks the engine for: limit(10000), scaled down so that
\* a table of MaxStored records exceeds it
listLimit == 2

\* EMBEDDING_CONFIG.batchSize, also hard-coded in the worker
batchSize == 5

\* "no value": an absent id field, a null worker, an undefined callback
None == 0

\* an option the caller left out (undefined)
Undefined == -1

\* scores and distances are counted in hundredths
\* VectorStorageService.search: limit = 10, minScore = 0.0
defaultLimit == 10
defaultMinScore == 0
\* KnowledgeSearchService.search: options?.limit || 10, options?.minScore || 0.3
ksDefaultLimit == 10
ksDefaultMinScore == 30

VARIABLES
    \* ---- EmbeddingWorkerManager (main thread) ----
    worker,                  \* this.worker: None or the Worker it refers to
    mgrIsInitialized,        \* this.isInitialized
    messageId,               \* this.messageId
    pendingRequests,         \* keys of this.pendingRequests
    timers,                  \* ids whose setTimeout timer is armed
    currentProgressCallback, \* this.currentProgressCallback: None or a callback
    reqType,                 \* id -> type of the request sent with that id
    reqState,                \* id -> state of the promise sendMessage returned
    reqReason,               \* id -> what settled that promise
    arrived,                 \* id -> how a response carrying that id was handled
    calls,                   \* manager API calls: op, position, request awaited
    \* ---- Web Workers (isolated contexts) ----
    alive,                   \* Workers created and not terminated
    initCb,                  \* Worker -> onProgress captured by its onmessage
    inbox,                   \* Worker -> messages posted to it, not yet handled
    active,                  \* Worker -> requests whose handler is suspended
    wIsInitialized,          \* Worker -> EmbeddingWorker.isInitialized
    created,                 \* number of Workers constructed so far
    outbox,                  \* Worker -> messages it posted, not yet delivered
    delivered,               \* progress deliveries: <<callback, worker>>
    \* ---- EmbeddingService ----
    esPipeline,              \* this.pipeline # null
    esIsInitialized,         \* this.isInitialized
    esInitializationPromise, \* this.initializationPromise: None or a promise
    esAttempt,               \* promise of _initializePipeline -> its state
    esCreated,               \* number of _initializePipeline calls so far
    esCalls,                 \* EmbeddingService API calls in progress
    \* ---- VectorStorageService and its engine ----
    vsDb,                    \* this.db: None or the connection it refers to
    vsTable,                 \* this.table: None or the table handle
    vsIsInitialized,         \* this.isInitialized
    vsTableExists,           \* engine: the backing table exists
    vsRecords,               \* engine: the records of the backing table
    vsConnects,              \* number of connect() calls so far
    vsOpens,                 \* number of openTable/createTable calls so far
    vsCalls,                 \* VectorStorageService API calls in progress
    \* ---- KnowledgeSearchService ----
    ksIsInitialized,         \* this.isInitialized
    ksInitializationPromise, \* this.initializationPromise: None or a promise
    ksAttempt,               \* promise of _initializeServices -> its state
    ksCreated,               \* number of _initializeServices calls so far
    ksCalls,                 \* KnowledgeSearchService API calls in progress
    \* ---- chunkText / validateChunks (pure functions) ----
    chunkerText,             \* the text argument of chunkText
    chunkerChunks,           \* DocumentChunk[] returned by chunkText
    validation,              \* { isValid, errors } returned by validateChunks
    chunkerPc,               \* "text", "chunked" or "validated"
    \* ---- generateRelevanceReason (pure function) ----
    reasonScore,             \* the score argument, in hundredths
    relevanceReason,         \* the label returned, "" before the call
    \* ---- mockKnowledgeSearchService ----
    mockChunks,              \* the mockChunks map: per document, in insertion
                             \* order, the texts of its chunks
    mockCall,                \* the search call: query, options, results
    \* ---- generateSnippet, truncateText (pure functions) ----
    snippetCall,             \* a generateSnippet application: the words of text
                             \* and query, bestStart and the snippet returned
    truncateCall             \* a truncateText application: text and result

workerVars == <<worker, mgrIsInitialized, messageId, pendingRequests, timers,
                currentProgressCallback, reqType, reqState, reqReason, arrived, calls,
                alive, initCb, inbox, active, wIsInitialized, created, outbox,
                delivered>>

esVars == <<esPipeline, esIsInitialized, esInitializationPromise, esAttempt,
            esCreated, esCalls>>

vsVars == <<vsDb, vsTable, vsIsInitialized, vsTableExists, vsRecords, vsConnects,
            vsOpens, vsCalls>>

ksVars == <<ksIsInitialized, ksInitializationPromise, ksAttempt, ksCreated, ksCalls>>

chunkVars == <<chunkerText, chunkerChunks, validation, chunkerPc>>

reasonVars == <<reasonScore, relevanceReason>>

mockVars == <<mockChunks, mockCall>>

textVars == <<snippetCall, truncateCall>>

pureVars == <<chunkVars, reasonVars, mockVars, textVars>>

vars == <<workerVars, esVars, vsVars, ksVars, pureVars>>

\* what the steps of one component leave alone
nonWorkerVars == <<esVars, vsVars, ksVars, pureVars>>
nonEsVars == <<workerVars, vsVars, ksVars, pureVars>>
nonVsVars == <<workerVars, esVars, ksVars, pureVars>>
nonChunkVars == <<workerVars, esVars, vsVars, ksVars, reasonVars, mockVars, textVars>>
nonReasonVars == <<workerVars, esVars, vsVars, ksVars, chunkVars, mockVars, textVars>>
nonMockVars == <<workerVars, esVars, vsVars, ksVars, chunkVars, reasonVars, textVars>>
nonTextVars == <<workerVars, esVars, vsVars, ksVars, chunkVars, reasonVars, mockVars>>

-----------------------------------------------------------------------------
(***************************************************************************)
(* EmbeddingWorkerManager and embeddingWorker.ts                           *)
(***************************************************************************)
Max(a, b) == IF a > b THEN a ELSE b
Min(a, b) == IF a < b THEN a ELSE b

\* the numbers of S in ascending order
RECURSIVE Ascending(_)
Ascending(S) ==
    IF S = {} THEN <<>>
    ELSE LET m == CHOOSE x \in S : \A y \in S : x <= y
         IN  <<m>> \o Ascending(S \ {m})

CallIds == 1 .. MaxCalls
MsgIds == 1 .. MaxCalls
Workers == 1 .. MaxCalls

\* the calls, message ids and Workers of the longest behaviour of either
\* specification of the manager
MgrSlots == 1 .. Max(MaxCalls, MaxMgrCalls)

RequestTypes == {"INITIALIZE", "GENERATE_SINGLE", "GENERATE_BATCH", "GET_STATUS"}

NoCall == [op |-> "none", pc |-> "idle", req |-> None, cb |-> None]

\* the success and the error response type of each request type
SuccessType(t) ==
    CASE t = "INITIALIZE" -> "INITIALIZED"
      [] t = "GENERATE_SINGLE" -> "SINGLE_RESULT"
      [] t = "GENERATE_BATCH" -> "BATCH_RESULT"
      [] OTHER -> "STATUS"

ErrorType(t) ==
    CASE t = "INITIALIZE" -> "INITIALIZATION_ERROR"
      [] t = "GENERATE_SINGLE" -> "SINGLE_ERROR"
      [] OTHER -> "BATCH_ERROR"

\* response.type.includes('ERROR')
IsErrorType(t) == t \in {"INITIALIZATION_ERROR", "SINGLE_ERROR", "BATCH_ERROR"}

\* The object handleMessage returns is {type, payload}: it has no id field.
\* "re" is bookkeeping of the model (the id of the request being answered),
\* it is not part of the message.
WorkerResponse(type, m) == [type |-> type, id |-> None, re |-> m.id]

ProgressMessage == [type |-> "PROGRESS", id |-> None, re |-> None]

\* the STATUS message the worker script posts when it is loaded
InitialStatus == [type |-> "STATUS", id |-> None, re |-> None]

\* number of PROGRESS messages the worker posts for a batch of n chunks
ProgressCount(n) == (n + batchSize - 1) \div batchSize

RECURSIVE Repeat(_, _)
Repeat(x, n) == IF n = 0 THEN <<>> ELSE <<x>> \o Repeat(x, n - 1)

WorkerInit ==
    /\ worker = None
    /\ mgrIsInitialized = FALSE
    /\ messageId = 0
    /\ pendingRequests = {}
    /\ timers = {}
    /\ currentProgressCallback = None
    /\ reqType = [i \in MgrSlots |-> "none"]
    /\ reqState = [i \in MgrSlots |-> "unsent"]
    /\ reqReason = [i \in MgrSlots |-> "none"]
    /\ arrived = [i \in MgrSlots |-> "none"]
    /\ calls = [c \in MgrSlots |-> NoCall]
    /\ alive = {}
    /\ created = 0
    /\ initCb = [w \in MgrSlots |-> None]
    /\ inbox = [w \in MgrSlots |-> <<>>]
    /\ active = [w \in MgrSlots |-> {}]
    /\ wIsInitialized = [w \in MgrSlots |-> FALSE]
    /\ outbox = [w \in MgrSlots |-> <<>>]
    /\ delivered = {}

\* sendMessage with this.worker set: a fresh id, the pending entry and its
\* timer, and the message posted to the worker.
SendMessage(c, op, type, n, cb) ==
    LET id == messageId + 1 IN
    /\ messageId' = id
    /\ pendingRequests' = pendingRequests \cup {id}
    /\ timers' = timers \cup {id}
    /\ reqType' = [reqType EXCEPT ![id] = type]
    /\ reqState' = [reqState EXCEPT ![id] = "pending"]
    /\ calls' = [calls EXCEPT ![c] = [op |-> op, pc |-> "await", req |-> id, cb |-> cb]]
    /\ UNCHANGED <<reqReason, arrived>>

\* a rejectAllPending that does not clear the table
RejectAllPendingKeepsTable(reason) ==
    /\ reqState' = [i \in MgrSlots |->
                      IF i \in pendingRequests /\ reqState[i] = "pending"
                      THEN "rejected" ELSE reqState[i]]
    /\ reqReason' = [i \in MgrSlots |->
                      IF i \in pendingRequests /\ reqState[i] = "pending"
                      THEN reason ELSE reqReason[i]]
    /\ timers' = timers \ pendingRequests
    /\ pendingRequests' = pendingRequests

\* rejectAllPending: every pending promise rejected, its timer cleared, the
\* table emptied.
RejectAllPending(reason) ==
    /\ reqState' = [i \in MgrSlots |->
                      IF i \in pendingRequests /\ reqState[i] = "pending"
                      THEN "rejected" ELSE reqState[i]]
    /\ reqReason' = [i \in MgrSlots |->
                      IF i \in pendingRequests /\ reqState[i] = "pending"
                      THEN reason ELSE reqReason[i]]
    /\ timers' = timers \ pendingRequests
    /\ pendingRequests' = {}

\* a cleanup that does not reject what is pending
CleanupWithoutReject ==
    /\ alive' = alive \ {worker}
    /\ worker' = None
    /\ mgrIsInitialized' = FALSE
    /\ UNCHANGED <<reqState, reqReason, timers, pendingRequests>>
    /\ inbox' = [w \in MgrSlots |-> IF w = worker THEN <<>> ELSE inbox[w]]
    /\ outbox' = [w \in MgrSlots |-> IF w = worker THEN <<>> ELSE outbox[w]]
    /\ active' = [w \in MgrSlots |-> IF w = worker THEN {} ELSE active[w]]
    /\ wIsInitialized' = [w \in MgrSlots |-> IF w = worker THEN FALSE ELSE wIsInitialized[w]]

\* cleanup: terminate this.worker, forget it, reject what is pending. A
\* terminated Worker runs no more code and delivers no more messages.
Cleanup ==
    /\ alive' = alive \ {worker}
    /\ worker' = None
    /\ mgrIsInitialized' = FALSE
    /\ RejectAllPending("terminated")
    /\ inbox' = [w \in MgrSlots |-> IF w = worker THEN <<>> ELSE inbox[w]]
    /\ outbox' = [w \in MgrSlots |-> IF w = worker THEN <<>> ELSE outbox[w]]
    /\ active' = [w \in MgrSlots |-> IF w = worker THEN {} ELSE active[w]]
    /\ wIsInitialized' = [w \in MgrSlots |-> IF w = worker THEN FALSE ELSE wIsInitialized[w]]

\* call slots are taken in order
FreeCall(c) == calls[c].op = "none" /\ \A d \in 1 .. c - 1 : calls[d].op # "none"

\* initialize(onProgress), up to its first suspension: a Worker is created
\* (its script posts the initial STATUS), the handlers are attached and the
\* INITIALIZE request is sent.
MgrInitialize(c, cb) ==
    /\ FreeCall(c)
    /\ IF mgrIsInitialized /\ worker # None
       THEN /\ calls' = [calls EXCEPT ![c] =
                           [op |-> "initialize", pc |-> "resolved", req |-> None, cb |-> cb]]
            /\ UNCHANGED <<worker, mgrIsInitialized, messageId, pendingRequests, timers,
                           currentProgressCallback, reqType, arrived, reqState, reqReason, created,
                           alive, initCb, inbox, active, wIsInitialized, outbox, delivered>>
       ELSE LET w == created + 1
                id == messageId + 1 IN
            /\ created' = w
            /\ worker' = w
            /\ alive' = alive \cup {w}
            /\ initCb' = [initCb EXCEPT ![w] = cb]
            /\ outbox' = [outbox EXCEPT ![w] = <<InitialStatus>>]
            /\ SendMessage(c, "initialize", "INITIALIZE", 0, cb)
            /\ inbox' = [inbox EXCEPT ![w] = <<[type |-> "INITIALIZE", id |-> id, n |-> 0]>>]
            /\ UNCHANGED <<mgrIsInitialized, currentProgressCallback, active,
                           wIsInitialized, delivered>>
    /\ UNCHANGED nonWorkerVars


\* initialize, after the INITIALIZE request settled
MgrInitializeResume(c) ==
    /\ calls[c].op = "initialize" /\ calls[c].pc = "await"
    /\ reqState[calls[c].req] # "pending"
    /\ IF reqState[calls[c].req] = "resolved"
       THEN \* a promise is resolved only with a non-error response
            /\ mgrIsInitialized' = TRUE
            /\ calls' = [calls EXCEPT ![c].pc = "resolved"]
            /\ UNCHANGED <<worker, alive, reqState, reqReason, timers, pendingRequests,
                           inbox, active, wIsInitialized, outbox>>
       ELSE \* catch: cleanup() and rethrow
            /\ Cleanup
            /\ calls' = [calls EXCEPT ![c].pc = "rejected"]
    /\ UNCHANGED <<messageId, currentProgressCallback, reqType, arrived, created, initCb,
                   delivered>>
    /\ UNCHANGED nonWorkerVars


\* generateEmbedding(text, chunkId), up to its first suspension
MgrGenerateEmbedding(c) ==
    /\ FreeCall(c)
    /\ IF ~mgrIsInitialized \/ worker = None
       THEN /\ calls' = [calls EXCEPT ![c] =
                           [op |-> "generateEmbedding", pc |-> "rejected", req |-> None, cb |-> None]]
            /\ UNCHANGED <<messageId, pendingRequests, timers, reqType, arrived, reqState,
                           reqReason, inbox>>
       ELSE /\ SendMessage(c, "generateEmbedding", "GENERATE_SINGLE", 0, None)
            /\ inbox' = [inbox EXCEPT ![worker] =
                           Append(@, [type |-> "GENERATE_SINGLE", id |-> messageId + 1, n |-> 0])]
    /\ UNCHANGED <<worker, mgrIsInitialized, currentProgressCallback, created, alive,
                   initCb, active, wIsInitialized, outbox, delivered>>
    /\ UNCHANGED nonWorkerVars


\* generateBatchEmbeddings(chunks, onProgress), up to its first suspension
MgrGenerateBatchEmbeddings(c, n, cb) ==
    /\ FreeCall(c)
    /\ IF ~mgrIsInitialized \/ worker = None
       THEN /\ calls' = [calls EXCEPT ![c] =
                           [op |-> "generateBatchEmbeddings", pc |-> "rejected", req |-> None, cb |-> cb]]
            /\ UNCHANGED <<messageId, pendingRequests, timers, reqType, arrived, reqState,
                           reqReason, inbox, currentProgressCallback>>
       ELSE /\ currentProgressCallback' = cb
            /\ SendMessage(c, "generateBatchEmbeddings", "GENERATE_BATCH", n, cb)
            /\ inbox' = [inbox EXCEPT ![worker] =
                           Append(@, [type |-> "GENERATE_BATCH", id |-> messageId + 1, n |-> n])]
    /\ UNCHANGED <<worker, mgrIsInitialized, created, alive,
                   initCb, active, wIsInitialized, outbox, delivered>>
    /\ UNCHANGED nonWorkerVars


\* getStatus(), up to its first suspension
MgrGetStatus(c) ==
    /\ FreeCall(c)
    /\ IF worker = None
       THEN /\ calls' = [calls EXCEPT ![c] =
                           [op |-> "getStatus", pc |-> "resolved", req |-> None, cb |-> None]]
            /\ UNCHANGED <<messageId, pendingRequests, timers, reqType, arrived, reqState,
                           reqReason, inbox>>
       ELSE /\ SendMessage(c, "getStatus", "GET_STATUS", 0, None)
            /\ inbox' = [inbox EXCEPT ![worker] =
                           Append(@, [type |-> "GET_STATUS", id |-> messageId + 1, n |-> 0])]
    /\ UNCHANGED <<worker, mgrIsInitialized, currentProgressCallback, created, alive,
                   initCb, active, wIsInitialized, outbox, delivered>>
    /\ UNCHANGED nonWorkerVars


\* generateEmbedding, generateBatchEmbeddings and getStatus after their
\* request settled. A rejected request makes the await throw, so the batch
\* call skips the line that clears currentProgressCallback.
MgrCallResume(c) ==
    /\ calls[c].op \in {"generateEmbedding", "generateBatchEmbeddings", "getStatus"}
    /\ calls[c].pc = "await"
    /\ reqState[calls[c].req] # "pending"
    /\ calls' = [calls EXCEPT ![c].pc = reqState[calls[c].req]]
    /\ currentProgressCallback' =
          IF calls[c].op = "generateBatchEmbeddings" /\ reqState[calls[c].req] = "resolved"
          THEN None ELSE currentProgressCallback
    /\ UNCHANGED <<worker, mgrIsInitialized, messageId, pendingRequests, timers,
                   reqType, arrived, reqState, reqReason, created, alive, initCb, inbox,
                   active, wIsInitialized, outbox, delivered>>
    /\ UNCHANGED nonWorkerVars


\* terminate()
MgrTerminate ==
    /\ worker # None \/ pendingRequests # {}
    /\ Cleanup
    /\ UNCHANGED <<messageId, currentProgressCallback, reqType, arrived, calls, created, initCb,
                   delivered>>
    /\ UNCHANGED nonWorkerVars


\* a setTimeout callback that clears the whole table
RequestTimeoutEvictsAll(id) ==
    /\ id \in timers
    /\ timers' = timers \ {id}
    /\ pendingRequests' = {}
    /\ reqState' = [reqState EXCEPT ![id] = IF @ = "pending" THEN "rejected" ELSE @]
    /\ reqReason' = [reqReason EXCEPT ![id] = IF reqState[id] = "pending" THEN "timeout" ELSE @]
    /\ UNCHANGED <<worker, mgrIsInitialized, messageId, currentProgressCallback, reqType,
                   arrived, calls, created, alive, initCb, inbox, active, wIsInitialized,
                   outbox, delivered>>
    /\ UNCHANGED nonWorkerVars

\* a setTimeout callback that evicts the request without rejecting it
RequestTimeoutKeepsPromise(id) ==
    /\ id \in timers
    /\ timers' = timers \ {id}
    /\ pendingRequests' = pendingRequests \ {id}
    /\ UNCHANGED <<worker, mgrIsInitialized, messageId, currentProgressCallback, reqType,
                   arrived, calls, created, alive, initCb, inbox, active, wIsInitialized,
                   outbox, delivered, reqState, reqReason>>
    /\ UNCHANGED nonWorkerVars

\* the setTimeout callback of request id
RequestTimeout(id) ==
    /\ id \in timers
    /\ timers' = timers \ {id}
    /\ pendingRequests' = pendingRequests \ {id}
    /\ reqState' = [reqState EXCEPT ![id] = IF @ = "pending" THEN "rejected" ELSE @]
    /\ reqReason' = [reqReason EXCEPT ![id] = IF reqState[id] = "pending" THEN "timeout" ELSE @]
    /\ UNCHANGED <<worker, mgrIsInitialized, messageId, currentProgressCallback, reqType, arrived,
                   calls, created, alive, initCb, inbox, active, wIsInitialized,
                   outbox, delivered>>
    /\ UNCHANGED nonWorkerVars


\* worker.onerror of Worker w
WorkerOnError(w) ==
    /\ w \in alive
    /\ RejectAllPending("worker_error")
    /\ UNCHANGED <<worker, mgrIsInitialized, messageId, currentProgressCallback, reqType, arrived,
                   calls, created, alive, initCb, inbox, active, wIsInitialized,
                   outbox, delivered>>
    /\ UNCHANGED nonWorkerVars


\* handleWorkerMessage: the callback a PROGRESS message of Worker w goes to
ProgressCallback(w) ==
    IF currentProgressCallback # None THEN currentProgressCallback ELSE initCb[w]

\* a handleWorkerMessage that settles a request without looking it up
IsDiscardedWithoutLookup(response) ==
    \/ response.type = "STATUS" /\ response.id = None
    \/ response.id = None

\* handleWorkerMessage: the response is dropped (an initial STATUS, a
\* response without id, or one whose id is not in pendingRequests)
IsDiscarded(response) ==
    \/ response.type = "STATUS" /\ response.id = None
    \/ response.id = None
    \/ response.id \notin pendingRequests

\* handleWorkerMessage(response, initProgressCallback) for a message of
\* Worker w. arrived records, for a response that carries an id, whether
\* that id was in pendingRequests.
HandleResponse(w, response) ==
    IF response.type = "PROGRESS"
    THEN /\ delivered' = delivered \cup {<<ProgressCallback(w), w>>}
         /\ UNCHANGED <<pendingRequests, timers, reqState, reqReason, arrived>>
    ELSE /\ arrived' = IF response.id = None THEN arrived
                       ELSE [arrived EXCEPT ![response.id] =
                               IF response.id \in pendingRequests THEN "matched"
                                                                  ELSE "late"]
         /\ IF IsDiscarded(response)
            THEN UNCHANGED <<pendingRequests, timers, reqState, reqReason, delivered>>
            ELSE /\ pendingRequests' = pendingRequests \ {response.id}
                 /\ timers' = timers \ {response.id}
                 /\ reqState' = [reqState EXCEPT ![response.id] =
                                   IF IsErrorType(response.type) THEN "rejected"
                                                                 ELSE "resolved"]
                 /\ reqReason' = [reqReason EXCEPT ![response.id] = "response"]
                 /\ UNCHANGED delivered

\* worker.onmessage for the oldest undelivered message of Worker w
HandleWorkerMessage(w) ==
    /\ w \in alive
    /\ outbox[w] # <<>>
    /\ outbox' = [outbox EXCEPT ![w] = Tail(@)]
    /\ HandleResponse(w, Head(outbox[w]))
    /\ UNCHANGED <<worker, mgrIsInitialized, messageId, currentProgressCallback, reqType,
                   calls, created, alive, initCb, inbox, active, wIsInitialized>>
    /\ UNCHANGED nonWorkerVars


\* self.onmessage of Worker w, up to the first suspension of handleMessage.
\* INITIALIZE suspends on embeddingService.initialize(); GENERATE_* throw at
\* once when the worker is not initialized, else GENERATE_BATCH posts its
\* PROGRESS messages and both suspend on the embedding call; GET_STATUS
\* answers at once.
WorkerOnMessage(w) ==
    /\ w \in alive
    /\ inbox[w] # <<>>
    /\ LET m == Head(inbox[w]) IN
       /\ inbox' = [inbox EXCEPT ![w] = Tail(@)]
       /\ IF m.type = "GET_STATUS"
          THEN /\ outbox' = [outbox EXCEPT ![w] = Append(@, WorkerResponse("STATUS", m))]
               /\ UNCHANGED active
          ELSE IF m.type = "INITIALIZE"
          THEN /\ active' = [active EXCEPT ![w] = @ \cup {m}]
               /\ UNCHANGED outbox
          ELSE IF ~wIsInitialized[w]
          THEN /\ outbox' = [outbox EXCEPT ![w] = Append(@, WorkerResponse(ErrorType(m.type), m))]
               /\ UNCHANGED active
          ELSE /\ active' = [active EXCEPT ![w] = @ \cup {m}]
               /\ outbox' = [outbox EXCEPT ![w] =
                               IF m.type = "GENERATE_BATCH"
                               THEN @ \o Repeat(ProgressMessage, ProgressCount(m.n))
                               ELSE @]
    /\ UNCHANGED <<worker, mgrIsInitialized, messageId, pendingRequests, timers,
                   currentProgressCallback, reqType, arrived, reqState, reqReason, calls,
                   created, alive, initCb, wIsInitialized, delivered>>
    /\ UNCHANGED nonWorkerVars


\* handleMessage of Worker w resumes for request m: the embedding service
\* call succeeded (ok) or threw; self.onmessage posts what it returns.
WorkerRespond(w, m, ok) ==
    /\ w \in alive
    /\ m \in active[w]
    /\ active' = [active EXCEPT ![w] = @ \ {m}]
    /\ wIsInitialized' = [wIsInitialized EXCEPT ![w] = @ \/ (m.type = "INITIALIZE" /\ ok)]
    /\ outbox' = [outbox EXCEPT ![w] =
                    Append(@, WorkerResponse(IF ok THEN SuccessType(m.type)
                                                   ELSE ErrorType(m.type), m))]
    /\ UNCHANGED <<worker, mgrIsInitialized, messageId, pendingRequests, timers,
                   currentProgressCallback, reqType, arrived, reqState, reqReason, calls,
                   created, alive, initCb, inbox, delivered>>
    /\ UNCHANGED nonWorkerVars


WorkerNext ==
    \/ \E c \in CallIds, withCb \in BOOLEAN :
          MgrInitialize(c, IF withCb THEN c ELSE None)
    \/ \E c \in CallIds : MgrInitializeResume(c)
    \/ \E c \in CallIds : MgrGenerateEmbedding(c)
    \/ \E c \in CallIds, n \in 0 .. MaxBatchChunks, withCb \in BOOLEAN :
          MgrGenerateBatchEmbeddings(c, n, IF withCb THEN c ELSE None)
    \/ \E c \in CallIds : MgrGetStatus(c)
    \/ \E c \in CallIds : MgrCallResume(c)
    \/ MgrTerminate
    \/ \E id \in MsgIds : RequestTimeout(id)
    \/ \E w \in Workers : WorkerOnError(w)
    \/ \E w \in Workers : HandleWorkerMessage(w)
    \/ \E w \in Workers : WorkerOnMessage(w)
    \/ \E w \in Workers : \E m \in active[w], ok \in BOOLEAN :
          WorkerRespond(w, m, ok)

\* isReady()
IsReady == mgrIsInitialized /\ worker # None

\* no live Worker has a message to handle, a request in progress or a
\* response on its way
WorkerQuiet ==
    \A w \in alive : inbox[w] = <<>> /\ active[w] = {} /\ outbox[w] = <<>>

\* the timer of request id fires after the workers have done what they had
\* to do: five minutes are long against the time a Worker takes to answer
RequestTimeoutLate(id) ==
    /\ WorkerQuiet
    /\ RequestTimeout(id)

\* the manager and embeddingWorker.ts, with timers that fire late, when
\* nobody calls terminate() and the Worker raises no error event
WorkerLiveNext ==
    \/ \E c \in CallIds, withCb \in BOOLEAN :
          MgrInitialize(c, IF withCb THEN c ELSE None)
    \/ \E c \in CallIds : MgrInitializeResume(c)
    \/ \E c \in CallIds : MgrGenerateEmbedding(c)
    \/ \E c \in CallIds, n \in 0 .. MaxBatchChunks, withCb \in BOOLEAN :
          MgrGenerateBatchEmbeddings(c, n, IF withCb THEN c ELSE None)
    \/ \E c \in CallIds : MgrGetStatus(c)
    \/ \E c \in CallIds : MgrCallResume(c)
    \/ \E id \in MsgIds : RequestTimeoutLate(id)
    \/ \E w \in Workers : HandleWorkerMessage(w)
    \/ \E w \in Workers : WorkerOnMessage(w)
    \/ \E w \in Workers : \E m \in active[w], ok \in BOOLEAN :
          WorkerRespond(w, m, ok)

\* what the event loops of the page and of the Worker guarantee: a posted
\* message is handled, a settled promise resumes its awaiter, a timer that
\* is not cleared fires. The embedding call inside the Worker is not
\* required to return.
WorkerFairness ==
    /\ \A w \in Workers : WF_vars(HandleWorkerMessage(w))
    /\ \A w \in Workers : WF_vars(WorkerOnMessage(w))
    /\ \A c \in CallIds : WF_vars(MgrInitializeResume(c))
    /\ \A c \in CallIds : WF_vars(MgrCallResume(c))
    /\ \A id \in MsgIds : WF_vars(RequestTimeoutLate(id))

(***************************************************************************)
(* The manager with a worker that echoes the id of each request: what      *)
(* worker.onmessage receives is any answer to a request posted to a live   *)
(* Worker, in any order, and PROGRESS messages while a batch is handled.   *)
(***************************************************************************)
MgrCallIds == 1 .. MaxMgrCalls

\* the sequence seq without its k-th element
RemoveAt(seq, k) == SubSeq(seq, 1, k - 1) \o SubSeq(seq, k + 1, Len(seq))

\* a response of Worker w to the k-th request posted to it and not yet
\* answered: the success or the error response of the request's type, with
\* the request's id
EchoedResponse(m, ok) ==
    [type |-> IF ok THEN SuccessType(m.type) ELSE ErrorType(m.type),
     id |-> m.id, re |-> m.id]

\* worker.onmessage: Worker w answers the k-th request posted to it
MgrOnMessage(w, k, ok) ==
    /\ w \in alive
    /\ k \in DOMAIN inbox[w]
    /\ inbox[w][k].type = "GET_STATUS" => ok
    /\ inbox' = [inbox EXCEPT ![w] = RemoveAt(@, k)]
    /\ HandleResponse(w, EchoedResponse(inbox[w][k], ok))
    /\ UNCHANGED <<worker, mgrIsInitialized, messageId, currentProgressCallback, reqType,
                   calls, created, alive, initCb, active, wIsInitialized, outbox>>
    /\ UNCHANGED nonWorkerVars

\* worker.onmessage: a PROGRESS message of Worker w, which posts them while
\* it handles a GENERATE_BATCH request
MgrOnProgress(w) ==
    /\ w \in alive
    /\ \E k \in DOMAIN inbox[w] : inbox[w][k].type = "GENERATE_BATCH"
    /\ HandleResponse(w, ProgressMessage)
    /\ UNCHANGED <<worker, mgrIsInitialized, messageId, currentProgressCallback, reqType,
                   calls, created, alive, initCb, inbox, active, wIsInitialized, outbox>>
    /\ UNCHANGED nonWorkerVars

ManagerNext ==
    \/ \E c \in MgrCallIds, withCb \in BOOLEAN :
          MgrInitialize(c, IF withCb THEN c ELSE None)
    \/ \E c \in MgrCallIds : MgrInitializeResume(c)
    \/ \E c \in MgrCallIds : MgrGenerateEmbedding(c)
    \/ \E c \in MgrCallIds, n \in 1 .. MaxBatchChunks, withCb \in BOOLEAN :
          MgrGenerateBatchEmbeddings(c, n, IF withCb THEN c ELSE None)
    \/ \E c \in MgrCallIds : MgrGetStatus(c)
    \/ \E c \in MgrCallIds : MgrCallResume(c)
    \/ MgrTerminate
    \/ \E id \in MgrCallIds : RequestTimeout(id)
    \/ \E w \in MgrCallIds : WorkerOnError(w)
    \/ \E w \in MgrCallIds, k \in MgrCallIds, ok \in BOOLEAN : MgrOnMessage(w, k, ok)
    \/ \E w \in MgrCallIds : MgrOnProgress(w)

-----------------------------------------------------------------------------
(***************************************************************************)
(* EmbeddingService                                                        *)
(***************************************************************************)

EsCallIds == 1 .. MaxEsCalls
\* call records and attempts of the service, over all specifications
EsSlots == 1 .. Max(MaxEsCalls, 2 * MaxKsCalls)
EsAttemptIds == EsSlots

\* the chunk ids of a document of n chunks: distinct ids
ChunkIds(doc, n) == [j \in 1 .. n |-> <<doc, j>>]

NoEsCall == [op |-> "none", pc |-> "idle", wait |-> None, chunks |-> <<>>, i |-> 0,
             outcome |-> <<>>, results |-> <<>>, errors |-> <<>>,
             successCount |-> 0, failed |-> {}]

EsInit ==
    /\ esPipeline = FALSE
    /\ esIsInitialized = FALSE
    /\ esInitializationPromise = None
    /\ esAttempt = [a \in EsAttemptIds |-> "unused"]
    /\ esCreated = 0
    /\ esCalls = [c \in EsSlots |-> NoEsCall]

\* initialize(): what the caller ends up awaiting. None: the call returns at
\* once; else the promise of the attempt in flight or of the one it starts.
EsInitializeAwaits ==
    IF esIsInitialized THEN None
    ELSE IF esInitializationPromise # None THEN esInitializationPromise
    ELSE esCreated + 1

\* initialize() up to its await. When it starts an attempt, _initializePipeline
\* runs up to its first suspension: if pipeline() throws before returning a
\* promise, the catch block clears this.initializationPromise and the
\* attempt's promise is already rejected when line 69 stores it.
EsInitialize(throws) ==
    IF ~esIsInitialized /\ esInitializationPromise = None
    THEN /\ esCreated' = esCreated + 1
         /\ esAttempt' = [esAttempt EXCEPT ![esCreated + 1] =
                            IF throws THEN "rejected" ELSE "pending"]
         /\ esInitializationPromise' = esCreated + 1
    ELSE UNCHANGED <<esCreated, esAttempt, esInitializationPromise>>

\* the backend setup promise of attempt a settles: _initializePipeline resumes
EsInitializePipelineResume(a, ok) ==
    /\ esAttempt[a] = "pending"
    /\ IF ok
       THEN /\ esPipeline' = TRUE
            /\ esIsInitialized' = TRUE
            /\ esAttempt' = [esAttempt EXCEPT ![a] = "resolved"]
            /\ UNCHANGED esInitializationPromise
       ELSE /\ esInitializationPromise' = None
            /\ esAttempt' = [esAttempt EXCEPT ![a] = "rejected"]
            /\ UNCHANGED <<esPipeline, esIsInitialized>>
    /\ UNCHANGED <<esCreated, esCalls>>
    /\ UNCHANGED nonEsVars


EsFreeCall(c) == esCalls[c].op = "none" /\ \A d \in 1 .. c - 1 : esCalls[d].op # "none"

\* an API call of the service, up to the await of this.initialize()
EsCallStart(c, op, chunks, throws) ==
    /\ esCalls' = [esCalls EXCEPT ![c] =
                     [NoEsCall EXCEPT !.op = op, !.pc = "awaitInit",
                                      !.wait = EsInitializeAwaits, !.chunks = chunks,
                                      !.outcome = [j \in 1 .. Len(chunks) |-> "none"]]]
    /\ EsInitialize(throws)
    /\ UNCHANGED <<esPipeline, esIsInitialized>>

\* the awaited initialization has settled
EsInitSettled(c) ==
    /\ esCalls[c].pc = "awaitInit"
    /\ esCalls[c].wait # None => esAttempt[esCalls[c].wait] # "pending"

EsInitRejected(c) == esCalls[c].wait # None /\ esAttempt[esCalls[c].wait] = "rejected"

IssueGroupWithRest(call, i) ==
    [call EXCEPT !.pc = "group", !.i = i,
                 !.outcome = [j \in 1 .. Len(call.chunks) |->
                                IF j > i THEN "pending" ELSE "none"]]

\* the embedding calls of the group starting after position i are issued
IssueGroup(call, i) ==
    [call EXCEPT !.pc = "group", !.i = i,
                 !.outcome = [j \in 1 .. Len(call.chunks) |->
                                IF j > i /\ j <= i + batchSize THEN "pending" ELSE "none"]]

\* the BatchEmbeddingResult returned
BatchResult(call) == [call EXCEPT !.pc = "resolved", !.successCount = Len(call.results)]

\* a call resumes from a suspension that no backend operation settles: after
\* await this.initialize(), or, in generateBatchEmbeddings, after the delay
\* between two groups, when the next group starts
EsCallResume(c) ==
    /\ esCalls[c].op # "none"
    /\ LET call == esCalls[c] IN
       IF call.pc = "delay"
       THEN esCalls' = [esCalls EXCEPT ![c] = IssueGroup(call, call.i + batchSize)]
       ELSE /\ EsInitSettled(c)
            /\ esCalls' = [esCalls EXCEPT ![c] =
                 IF EsInitRejected(c) THEN [call EXCEPT !.pc = "rejected"]
                 ELSE IF call.op = "initialize" THEN [call EXCEPT !.pc = "resolved"]
                 ELSE IF call.op = "generateEmbedding"
                      THEN IF esPipeline THEN [call EXCEPT !.pc = "embed"]
                           ELSE [call EXCEPT !.pc = "rejected"]
                 ELSE IF Len(call.chunks) = 0 THEN BatchResult(call)
                 ELSE IssueGroup(call, 0)]
    /\ UNCHANGED <<esPipeline, esIsInitialized, esInitializationPromise, esAttempt,
                   esCreated>>
    /\ UNCHANGED nonEsVars

\* generateEmbedding: the backend call settles
EsGenerateEmbeddingResume(c, ok) ==
    /\ esCalls[c].op = "generateEmbedding" /\ esCalls[c].pc = "embed"
    /\ esCalls' = [esCalls EXCEPT ![c].pc = IF ok THEN "resolved" ELSE "rejected",
                                  ![c].failed = IF ok THEN {} ELSE {1}]
    /\ UNCHANGED <<esPipeline, esIsInitialized, esInitializationPromise, esAttempt,
                   esCreated>>
    /\ UNCHANGED nonEsVars


\* generateBatchEmbeddings: the generateEmbedding call for position j of the
\* group in flight settles (its own await this.initialize() returns at once,
\* the service being initialized); a failure is caught into {chunkId, error}.
EsBatchItemSettle(c, j, ok) ==
    /\ esCalls[c].op = "generateBatchEmbeddings" /\ esCalls[c].pc = "group"
    /\ j \in DOMAIN esCalls[c].outcome
    /\ esCalls[c].outcome[j] = "pending"
    /\ esCalls' = [esCalls EXCEPT ![c].outcome[j] = IF ok THEN "ok" ELSE "fail",
                                  ![c].failed = IF ok THEN @ ELSE @ \cup {esCalls[c].chunks[j]}]
    /\ UNCHANGED <<esPipeline, esIsInitialized, esInitializationPromise, esAttempt,
                   esCreated>>
    /\ UNCHANGED nonEsVars


\* positions of the group in flight, in array order
GroupPositions(call) == call.i + 1 .. Min(call.i + batchSize, Len(call.chunks))

RECURSIVE SelectIds(_, _, _, _)
\* the chunk ids of positions lo..hi whose outcome is what, in order
SelectIds(call, lo, hi, what) ==
    IF lo > hi THEN <<>>
    ELSE (IF call.outcome[lo] = what THEN <<call.chunks[lo]>> ELSE <<>>)
         \o SelectIds(call, lo + 1, hi, what)

\* a collection loop that pushes every batchResult to results
CollectResultsAll(call) ==
    call.results \o SubSeq(call.chunks, call.i + 1, Min(call.i + batchSize, Len(call.chunks)))

\* results and errors after the batchResults of the group are collected
CollectResults(call) ==
    call.results \o SelectIds(call, call.i + 1, Min(call.i + batchSize, Len(call.chunks)), "ok")

CollectErrors(call) ==
    call.errors \o SelectIds(call, call.i + 1, Min(call.i + batchSize, Len(call.chunks)), "fail")

\* generateBatchEmbeddings: Promise.all of the group resolved; results and
\* errors are collected, then either the inter-group delay starts or the
\* result is returned.
EsBatchCollect(c) ==
    /\ esCalls[c].op = "generateBatchEmbeddings" /\ esCalls[c].pc = "group"
    /\ \A j \in GroupPositions(esCalls[c]) : esCalls[c].outcome[j] \in {"ok", "fail"}
    /\ LET call == esCalls[c]
           collected == [call EXCEPT !.results = CollectResults(call),
                                     !.errors = CollectErrors(call),
                                     !.outcome = [j \in DOMAIN call.outcome |-> "none"]] IN
       esCalls' = [esCalls EXCEPT ![c] =
          IF call.i + batchSize < Len(call.chunks)
          THEN [collected EXCEPT !.pc = "delay"]
          ELSE BatchResult(collected)]
    /\ UNCHANGED <<esPipeline, esIsInitialized, esInitializationPromise, esAttempt,
                   esCreated>>
    /\ UNCHANGED nonEsVars


\* the steps of the service that are not entry points
EsSteps ==
    \/ \E a \in EsAttemptIds, ok \in BOOLEAN :
          EsInitializePipelineResume(a, ok)
    \/ \E c \in EsSlots : EsCallResume(c)
    \/ \E c \in EsSlots, ok \in BOOLEAN :
          EsGenerateEmbeddingResume(c, ok)
    \/ \E c \in EsSlots : \E j \in 1 .. Max(MaxChunks, MaxDocChunks), ok \in BOOLEAN :
          EsBatchItemSettle(c, j, ok)
    \/ \E c \in EsSlots : EsBatchCollect(c)

\* direct calls of the service's API
EsApiInitialize(c, throws) ==
    /\ EsFreeCall(c)
    /\ EsCallStart(c, "initialize", <<>>, throws)
    /\ UNCHANGED nonEsVars


EsApiGenerateEmbedding(c, throws) ==
    /\ EsFreeCall(c)
    /\ EsCallStart(c, "generateEmbedding", ChunkIds(c, 1), throws)
    /\ UNCHANGED nonEsVars


\* one batch call at a time in this specification
EsApiGenerateBatchEmbeddings(c, n, throws) ==
    /\ EsFreeCall(c)
    /\ \A d \in EsSlots : esCalls[d].op # "generateBatchEmbeddings"
    /\ EsCallStart(c, "generateBatchEmbeddings", ChunkIds(c, n), throws)
    /\ UNCHANGED nonEsVars


EmbedNext ==
    \/ \E c \in EsCallIds, throws \in BOOLEAN :
          EsApiInitialize(c, throws)
    \/ \E c \in EsCallIds, throws \in BOOLEAN :
          EsApiGenerateEmbedding(c, throws)
    \/ \E c \in EsCallIds, n \in 0 .. MaxChunks, throws \in BOOLEAN :
          EsApiGenerateBatchEmbeddings(c, n, throws)
    \/ EsSteps

-----------------------------------------------------------------------------
(***************************************************************************)
(* VectorStorageService                                                    *)
(***************************************************************************)
VsSlots == 1 .. Max(2 * MaxKsCalls, MaxStoreCalls)

\* options = {}
\* documentIds left out: a set that is no list of document ids
NoDocumentIds == {Undefined}

NoOptions == [limit |-> Undefined, minScore |-> Undefined, documentIds |-> NoDocumentIds]

NoVsCall == [op |-> "none", pc |-> "idle", chunks |-> <<>>, embeddings |-> <<>>,
             records |-> <<>>, options |-> NoOptions, documentId |-> None,
             results |-> <<>>]

\* the placeholder record createTable is given to establish the schema; its
\* ids ('sample') are those of no document
sampleRecord(now) == [documentId |-> None, chunkId |-> <<None, None>>, createdAt |-> now]

\* id = 'sample'
IsSample(r) == r.chunkId = <<None, None>>

\* the createdAt values of the records of the table and of the records built
\* by calls in progress: the readings of the clock taken so far that remain
StampsTaken ==
    {vsRecords[k].createdAt : k \in DOMAIN vsRecords}
        \cup UNION {{vsCalls[c].records[k].createdAt : k \in DOMAIN vsCalls[c].records} :
                       c \in DOMAIN vsCalls}

\* new Date(): a reading not earlier than any reading taken before; tick
\* tells whether the clock has moved on since the latest of them
Now(tick) ==
    LET latest == IF StampsTaken = {} THEN 0
                  ELSE CHOOSE t \in StampsTaken : \A u \in StampsTaken : u <= t
    IN  Min(latest + tick, MaxTime)

VsInit ==
    /\ vsDb = None
    /\ vsTable = None
    /\ vsIsInitialized = FALSE
    /\ vsTableExists \in BOOLEAN
    /\ vsRecords = <<>>
    /\ vsConnects = 0
    /\ vsOpens = 0
    /\ vsCalls = [c \in VsSlots |-> NoVsCall]

\* an API call of the service, up to the first suspension of its
\* this.initialize(): when the service is not initialized, connect() is called.
VsCallStart(c, op, chunks, embeddings, options, documentId) ==
    /\ vsCalls' = [vsCalls EXCEPT ![c] =
                     [NoVsCall EXCEPT !.op = op, !.chunks = chunks, !.embeddings = embeddings,
                                      !.options = options, !.documentId = documentId,
                                      !.pc = IF vsIsInitialized THEN "body" ELSE "connect"]]
    /\ vsConnects' = IF vsIsInitialized THEN vsConnects ELSE vsConnects + 1
    /\ UNCHANGED <<vsDb, vsTable, vsIsInitialized, vsTableExists, vsRecords, vsOpens>>

\* where a call continues once its initialize() completed
AfterInitialize(call) == IF call.op = "initialize" THEN "resolved" ELSE "body"

\* initialize(): connect() settles; on success tableNames() is called
VsConnectSettle(c, ok) ==
    /\ vsCalls[c].pc = "connect"
    /\ vsDb' = IF ok THEN c ELSE vsDb
    /\ vsCalls' = [vsCalls EXCEPT ![c].pc = IF ok THEN "tableNames" ELSE "rejected"]
    /\ UNCHANGED <<vsTable, vsIsInitialized, vsTableExists, vsRecords, vsConnects, vsOpens>>
    /\ UNCHANGED nonVsVars

\* initialize(): tableNames() settles; the table is opened or created
VsTableNamesSettle(c, ok) ==
    /\ vsCalls[c].pc = "tableNames"
    /\ vsCalls' = [vsCalls EXCEPT ![c].pc =
                     IF ~ok THEN "rejected"
                     ELSE IF vsTableExists THEN "openTable" ELSE "createTable"]
    /\ vsOpens' = IF ok THEN vsOpens + 1 ELSE vsOpens
    /\ UNCHANGED <<vsDb, vsTable, vsIsInitialized, vsTableExists, vsRecords, vsConnects>>
    /\ UNCHANGED nonVsVars

\* initialize(): openTable() settles
VsOpenTableSettle(c, ok) ==
    /\ vsCalls[c].pc = "openTable"
    /\ vsTable' = IF ok THEN c ELSE vsTable
    /\ vsIsInitialized' = (vsIsInitialized \/ ok)
    /\ vsCalls' = [vsCalls EXCEPT ![c].pc =
                     IF ok THEN AfterInitialize(vsCalls[c]) ELSE "rejected"]
    /\ UNCHANGED <<vsDb, vsTableExists, vsRecords, vsConnects, vsOpens>>
    /\ UNCHANGED nonVsVars

\* initialize(): createTable() settles; the engine refuses to create a table
\* that exists. On success the placeholder record is deleted next.
VsCreateTableSettle(c, ok) ==
    /\ vsCalls[c].pc = "createTable"
    /\ ok => ~vsTableExists
    /\ vsTable' = IF ok THEN c ELSE vsTable
    /\ vsTableExists' = (vsTableExists \/ ok)
    /\ vsRecords' = IF ok THEN <<sampleRecord(Now(0))>> ELSE vsRecords
    /\ vsCalls' = [vsCalls EXCEPT ![c].pc = IF ok THEN "deleteSample" ELSE "rejected"]
    /\ UNCHANGED <<vsDb, vsIsInitialized, vsConnects, vsOpens>>
    /\ UNCHANGED nonVsVars

\* the records of seq that satisfy Keep, in order
RECURSIVE SelectRecords(_, _)
SelectRecords(seq, keep) ==
    IF seq = <<>> THEN <<>>
    ELSE (IF Head(seq) \in keep THEN <<Head(seq)>> ELSE <<>>) \o SelectRecords(Tail(seq), keep)

\* initialize(): table.delete("id = 'sample'") settles
VsDeleteSampleSettle(c, ok) ==
    /\ vsCalls[c].pc = "deleteSample"
    /\ vsRecords' = IF ok
                    THEN SelectRecords(vsRecords, {r \in {vsRecords[k] : k \in DOMAIN vsRecords} :
                                                     ~IsSample(r)})
                    ELSE vsRecords
    /\ vsIsInitialized' = (vsIsInitialized \/ ok)
    /\ vsCalls' = [vsCalls EXCEPT ![c].pc =
                     IF ok THEN AfterInitialize(vsCalls[c]) ELSE "rejected"]
    /\ UNCHANGED <<vsDb, vsTable, vsTableExists, vsConnects, vsOpens>>
    /\ UNCHANGED nonVsVars

\* a storeEmbeddings that makes a record of every chunk
VectorRecordsAll(chunks, embeddingMap, now) ==
    [k \in DOMAIN chunks |->
        [documentId |-> chunks[k][1], chunkId |-> chunks[k], createdAt |-> now]]

RECURSIVE VectorRecords(_, _, _)
\* storeEmbeddings: one record per chunk whose id is in the embedding map
VectorRecords(chunks, embeddingMap, now) ==
    IF chunks = <<>> THEN <<>>
    ELSE (IF Head(chunks) \in embeddingMap
          THEN <<[documentId |-> Head(chunks)[1], chunkId |-> Head(chunks),
                  createdAt |-> now]>>
          ELSE <<>>) \o VectorRecords(Tail(chunks), embeddingMap, now)

\* an API call continues after await this.initialize(): storeEmbeddings
\* builds its records and calls table.add, search runs its query,
\* deleteDocument calls table.delete, listDocuments runs its query
VsBody(c, tick) ==
    /\ vsCalls[c].pc = "body"
    /\ LET call == vsCalls[c]
           vectorRecords == VectorRecords(call.chunks,
                                          {call.embeddings[k] : k \in DOMAIN call.embeddings},
                                          Now(tick)) IN
       vsCalls' = [vsCalls EXCEPT ![c] =
          IF call.op = "initialize" THEN [call EXCEPT !.pc = "resolved"]
          ELSE IF vsTable = None THEN [call EXCEPT !.pc = "rejected"]
          ELSE IF call.op = "search" THEN [call EXCEPT !.pc = "query"]
          ELSE IF call.op = "deleteDocument" THEN [call EXCEPT !.pc = "delete"]
          ELSE IF call.op = "listDocuments" THEN [call EXCEPT !.pc = "list"]
          ELSE IF Len(vectorRecords) = 0 THEN [call EXCEPT !.pc = "rejected"]
          ELSE [call EXCEPT !.pc = "add", !.records = vectorRecords]]
    /\ UNCHANGED <<vsDb, vsTable, vsIsInitialized, vsTableExists, vsRecords, vsConnects,
                   vsOpens>>
    /\ UNCHANGED nonVsVars

\* an insert that takes effect although it fails
VsAddSettleOnFailure(c, ok) ==
    /\ vsCalls[c].pc = "add"
    /\ vsRecords' = vsRecords \o vsCalls[c].records
    /\ vsCalls' = [vsCalls EXCEPT ![c].pc = IF ok THEN "resolved" ELSE "rejected"]
    /\ UNCHANGED <<vsDb, vsTable, vsIsInitialized, vsTableExists, vsConnects, vsOpens>>
    /\ UNCHANGED nonVsVars

VsAddSettleReplaces(c, ok) ==
    /\ vsCalls[c].pc = "add"
    /\ vsRecords' = IF ok THEN vsCalls[c].records ELSE vsRecords
    /\ vsCalls' = [vsCalls EXCEPT ![c].pc = IF ok THEN "resolved" ELSE "rejected"]
    /\ UNCHANGED <<vsDb, vsTable, vsIsInitialized, vsTableExists, vsConnects, vsOpens>>
    /\ UNCHANGED nonVsVars

\* storeEmbeddings: table.add(vectorRecords) settles
VsAddSettle(c, ok) ==
    /\ vsCalls[c].pc = "add"
    /\ vsRecords' = IF ok THEN vsRecords \o vsCalls[c].records ELSE vsRecords
    /\ vsCalls' = [vsCalls EXCEPT ![c].pc = IF ok THEN "resolved" ELSE "rejected"]
    /\ UNCHANGED <<vsDb, vsTable, vsIsInitialized, vsTableExists, vsConnects, vsOpens>>
    /\ UNCHANGED nonVsVars

\* the _distance values the engine reports, in hundredths
Distances == {0, 50}

\* const { limit = 10, minScore = 0.0, documentIds } = options
LimitOf(options) == IF options.limit = Undefined THEN defaultLimit ELSE options.limit
MinScoreOf(options) ==
    IF options.minScore = Undefined THEN defaultMinScore ELSE options.minScore

\* the rows (positions in the table) the query may select: all of them, or
\* with a non-empty documentIds those of the documents named
QueryCandidates(options) ==
    {k \in DOMAIN vsRecords :
        \/ options.documentIds = NoDocumentIds
        \/ options.documentIds = {}
        \/ vsRecords[k].documentId \in options.documentIds}

\* the rows of S with their distances, nearest first
RECURSIVE NearestFirst(_, _)
NearestFirst(S, dist) ==
    IF S = {} THEN <<>>
    ELSE LET k == CHOOSE x \in S : \A y \in S :
                      dist[x] < dist[y] \/ (dist[x] = dist[y] /\ x <= y)
         IN  <<[record |-> vsRecords[k], distance |-> dist[k]]>>
                 \o NearestFirst(S \ {k}, dist)

\* the rows mapped to results without the score filter
SearchResultsUnfiltered(rows, minScore) ==
    [k \in DOMAIN rows |-> [chunkId |-> rows[k].record.chunkId,
                            documentId |-> rows[k].record.documentId,
                            score |-> rows[k].distance]]

\* results.filter(result => result._distance >= minScore).map(...)
RECURSIVE SearchResults(_, _)
SearchResults(rows, minScore) ==
    IF rows = <<>> THEN <<>>
    ELSE (IF Head(rows).distance >= minScore
          THEN <<[chunkId |-> Head(rows).record.chunkId,
                  documentId |-> Head(rows).record.documentId,
                  score |-> Head(rows).distance]>>
          ELSE <<>>) \o SearchResults(Tail(rows), minScore)

\* search: query.toArray() settles. The engine answers with the limit
\* nearest candidate rows, S, at the distances dist it computed for them.
VsQuerySettle(c, ok, S, dist) ==
    /\ vsCalls[c].pc = "query"
    /\ S \subseteq QueryCandidates(vsCalls[c].options)
    /\ Cardinality(S) = Min(LimitOf(vsCalls[c].options),
                            Cardinality(QueryCandidates(vsCalls[c].options)))
    /\ vsCalls' = [vsCalls EXCEPT
                     ![c].pc = IF ok THEN "resolved" ELSE "rejected",
                     ![c].results = IF ok
                                    THEN SearchResults(NearestFirst(S, dist),
                                                       MinScoreOf(vsCalls[c].options))
                                    ELSE <<>>]
    /\ UNCHANGED <<vsDb, vsTable, vsIsInitialized, vsTableExists, vsRecords, vsConnects,
                   vsOpens>>
    /\ UNCHANGED nonVsVars

\* a delete that removes nothing
VsDeleteSettleKeepsRecords(c, ok) ==
    /\ vsCalls[c].pc = "delete"
    /\ vsCalls' = [vsCalls EXCEPT ![c].pc = IF ok THEN "resolved" ELSE "rejected"]
    /\ UNCHANGED <<vsDb, vsTable, vsIsInitialized, vsTableExists, vsRecords, vsConnects,
                   vsOpens>>
    /\ UNCHANGED nonVsVars

\* a delete that empties the table
VsDeleteSettleClearsTable(c, ok) ==
    /\ vsCalls[c].pc = "delete"
    /\ vsRecords' = IF ok THEN <<>> ELSE vsRecords
    /\ vsCalls' = [vsCalls EXCEPT ![c].pc = IF ok THEN "resolved" ELSE "rejected"]
    /\ UNCHANGED <<vsDb, vsTable, vsIsInitialized, vsTableExists, vsConnects, vsOpens>>
    /\ UNCHANGED nonVsVars

\* deleteDocument: table.delete(`documentId = '${documentId}'`) settles
VsDeleteSettle(c, ok) ==
    /\ vsCalls[c].pc = "delete"
    /\ vsRecords' = IF ok
                    THEN SelectRecords(vsRecords,
                                       {r \in {vsRecords[k] : k \in DOMAIN vsRecords} :
                                           r.documentId # vsCalls[c].documentId})
                    ELSE vsRecords
    /\ vsCalls' = [vsCalls EXCEPT ![c].pc = IF ok THEN "resolved" ELSE "rejected"]
    /\ UNCHANGED <<vsDb, vsTable, vsIsInitialized, vsTableExists, vsConnects, vsOpens>>
    /\ UNCHANGED nonVsVars

\* the rows at the positions S of the table, in table order
RowsAt(S) == [k \in 1..Cardinality(S) |-> vsRecords[Ascending(S)[k]]]

\* documentMap after the for loop over rows: one entry per document id, in
\* the order the ids are first met
RECURSIVE GroupByDocument(_, _)
GroupByDocument(rows, documentMap) ==
    IF rows = <<>> THEN documentMap
    ELSE LET record == Head(rows)
             at == {k \in DOMAIN documentMap :
                      documentMap[k].documentId = record.documentId}
         IN  GroupByDocument(Tail(rows),
                 IF at = {}
                 THEN Append(documentMap, [documentId |-> record.documentId,
                                           chunkCount |-> 1,
                                           createdAt |-> record.createdAt])
                 ELSE [k \in DOMAIN documentMap |->
                         IF k \in at
                         THEN [documentMap[k] EXCEPT
                                 !.chunkCount = @ + 1,
                                 !.createdAt = IF record.createdAt < @
                                               THEN record.createdAt ELSE @]
                         ELSE documentMap[k]])

\* Array.prototype.sort with (a, b) => b.createdAt - a.createdAt: latest
\* first, entries of equal createdAt in their former order
RECURSIVE SortByCreatedAtDescending(_)
SortByCreatedAtDescending(entries) ==
    IF entries = <<>> THEN <<>>
    ELSE LET k == CHOOSE x \in DOMAIN entries : \A y \in DOMAIN entries :
                      \/ entries[x].createdAt > entries[y].createdAt
                      \/ (entries[x].createdAt = entries[y].createdAt /\ x <= y)
         IN  <<entries[k]>> \o
             SortByCreatedAtDescending(SubSeq(entries, 1, k - 1)
                                           \o SubSeq(entries, k + 1, Len(entries)))

\* listDocuments: the query settles. The engine answers with at most
\* listLimit rows, those at the positions S of the table.
VsListSettle(c, ok, S) ==
    /\ vsCalls[c].pc = "list"
    /\ S \subseteq DOMAIN vsRecords
    /\ Cardinality(S) = Min(listLimit, Len(vsRecords))
    /\ vsCalls' = [vsCalls EXCEPT
                     ![c].pc = IF ok THEN "resolved" ELSE "rejected",
                     ![c].results = IF ok
                                    THEN SortByCreatedAtDescending(
                                             GroupByDocument(RowsAt(S), <<>>))
                                    ELSE <<>>]
    /\ UNCHANGED <<vsDb, vsTable, vsIsInitialized, vsTableExists, vsRecords, vsConnects,
                   vsOpens>>
    /\ UNCHANGED nonVsVars

\* the steps of initialize() and the step that follows it in an API call
VsInitializeSteps ==
    \/ \E c \in VsSlots, ok \in BOOLEAN : VsConnectSettle(c, ok)
    \/ \E c \in VsSlots, ok \in BOOLEAN : VsTableNamesSettle(c, ok)
    \/ \E c \in VsSlots, ok \in BOOLEAN : VsOpenTableSettle(c, ok)
    \/ \E c \in VsSlots, ok \in BOOLEAN : VsCreateTableSettle(c, ok)
    \/ \E c \in VsSlots, ok \in BOOLEAN : VsDeleteSampleSettle(c, ok)
    \/ \E c \in VsSlots, tick \in {0, 1} : VsBody(c, tick)

\* the steps of storeEmbeddings
VsStoreSteps ==
    \E c \in VsSlots, ok \in BOOLEAN : VsAddSettle(c, ok)

\* the steps of search
VsSearchSteps ==
    \E c \in VsSlots, ok \in BOOLEAN :
       \E S \in SUBSET (DOMAIN vsRecords) :
          \E dist \in [S -> Distances] : VsQuerySettle(c, ok, S, dist)

\* the steps of deleteDocument and listDocuments
VsCatalogSteps ==
    \/ \E c \in VsSlots, ok \in BOOLEAN : VsDeleteSettle(c, ok)
    \/ \E c \in VsSlots, ok \in BOOLEAN :
          \E S \in SUBSET (DOMAIN vsRecords) : VsListSettle(c, ok, S)

\* the steps of the service that are not entry points
VsSteps ==
    \/ \E c \in VsSlots, ok \in BOOLEAN : VsConnectSettle(c, ok)
    \/ \E c \in VsSlots, ok \in BOOLEAN : VsTableNamesSettle(c, ok)
    \/ \E c \in VsSlots, ok \in BOOLEAN : VsOpenTableSettle(c, ok)
    \/ \E c \in VsSlots, ok \in BOOLEAN : VsCreateTableSettle(c, ok)
    \/ \E c \in VsSlots, ok \in BOOLEAN : VsDeleteSampleSettle(c, ok)
    \/ \E c \in VsSlots, tick \in {0, 1} : VsBody(c, tick)
    \/ \E c \in VsSlots, ok \in BOOLEAN : VsAddSettle(c, ok)
    \/ \E c \in VsSlots, ok \in BOOLEAN :
          \E S \in SUBSET (DOMAIN vsRecords) :
             \E dist \in [S -> Distances] : VsQuerySettle(c, ok, S, dist)

\* the service called directly: each call takes the next free slot
StoreDocs == {1, 2}
StoreCallIds == 1..MaxStoreCalls

Limits == {Undefined, 1}
MinScores == {0}
DocumentIdFilters == {NoDocumentIds}

SearchOptions == [limit : Limits, minScore : MinScores, documentIds : DocumentIdFilters]

NextStoreCall(c) ==
    /\ c \in StoreCallIds
    /\ vsCalls[c].op = "none"
    /\ \A b \in 1..(c - 1) : vsCalls[b].op # "none"

StoreApiInitialize(c) ==
    /\ NextStoreCall(c)
    /\ VsCallStart(c, "initialize", <<>>, <<>>, NoOptions, None)
    /\ UNCHANGED nonVsVars

\* storeEmbeddings(chunks, embeddings, documentMetadata): n chunks of
\* document doc, the first m of them with an embedding (all, or all but one)
StoreApiStoreEmbeddings(c, doc, n, m) ==
    /\ NextStoreCall(c)
    /\ VsCallStart(c, "storeEmbeddings", [k \in 1..n |-> <<doc, k>>],
                   [k \in 1..m |-> <<doc, k>>], NoOptions, None)
    /\ UNCHANGED nonVsVars

StoreApiSearch(c, options) ==
    /\ NextStoreCall(c)
    /\ VsCallStart(c, "search", <<>>, <<>>, options, None)
    /\ UNCHANGED nonVsVars

\* the service constructed over a table that an earlier session left
TableCallIds == 1..MaxTableCalls

\* the table an earlier session left: the k-th record of a document has the
\* chunk id <<document, k>>; every record has its own creation time
ContentTimes == 0..(MaxTime - 1)

ContentOf(f) ==
    [k \in DOMAIN f |->
        [documentId |-> f[k][1],
         chunkId |-> <<f[k][1], Cardinality({j \in 1..k : f[j][1] = f[k][1]})>>,
         createdAt |-> f[k][2]]]

TableContents ==
    {ContentOf(f) : f \in UNION {[1..n -> StoreDocs \X ContentTimes] : n \in 0..MaxStored}}

NextTableCall(c) ==
    /\ c \in TableCallIds
    /\ vsCalls[c].op = "none"
    /\ \A b \in 1..(c - 1) : vsCalls[b].op # "none"

\* storeEmbeddings of one new chunk of document doc, with its embedding or
\* without
TableApiStoreEmbeddings(c, doc, m) ==
    /\ NextTableCall(c)
    /\ VsCallStart(c, "storeEmbeddings", <<<<doc, MaxStored + 1>>>>,
                   [k \in 1..m |-> <<doc, MaxStored + 1>>], NoOptions, None)
    /\ UNCHANGED nonVsVars

TableSearchOptions ==
    [limit : {Undefined, 1}, minScore : {Undefined, 50},
     documentIds : {NoDocumentIds, {}, {1}}]

TableApiSearch(c, options) ==
    /\ NextTableCall(c)
    /\ VsCallStart(c, "search", <<>>, <<>>, options, None)
    /\ UNCHANGED nonVsVars

\* the ids deleteDocument is given: those of StoreDocs and one never stored
DeleteIds == StoreDocs \cup {3}

TableApiDeleteDocument(c, documentId) ==
    /\ NextTableCall(c)
    /\ VsCallStart(c, "deleteDocument", <<>>, <<>>, NoOptions, documentId)
    /\ UNCHANGED nonVsVars

TableApiListDocuments(c) ==
    /\ NextTableCall(c)
    /\ VsCallStart(c, "listDocuments", <<>>, <<>>, NoOptions, None)
    /\ UNCHANGED nonVsVars

SearchNext ==
    \/ \E c \in TableCallIds, options \in TableSearchOptions : TableApiSearch(c, options)
    \/ VsInitializeSteps
    \/ VsSearchSteps

CatalogNext ==
    \/ \E c \in TableCallIds, doc \in StoreDocs, m \in {0, 1} :
          TableApiStoreEmbeddings(c, doc, m)
    \/ \E c \in TableCallIds, documentId \in DeleteIds :
          TableApiDeleteDocument(c, documentId)
    \/ \E c \in TableCallIds : TableApiListDocuments(c)
    \/ VsInitializeSteps
    \/ VsStoreSteps
    \/ VsCatalogSteps

StoreNext ==
    \/ \E c \in StoreCallIds : StoreApiInitialize(c)
    \/ \E c \in StoreCallIds, doc \in StoreDocs, n \in 1..MaxStoreChunks :
          \E m \in {n - 1, n} : StoreApiStoreEmbeddings(c, doc, n, m)
    \/ \E c \in StoreCallIds, options \in SearchOptions : StoreApiSearch(c, options)
    \/ VsSteps

-----------------------------------------------------------------------------
(***************************************************************************)
(* KnowledgeSearchService                                                  *)
(***************************************************************************)
KsCallIds == 1 .. MaxKsCalls
KsAttemptIds == 1 .. MaxKsCalls

\* the call record of the embedding service and of the vector store that
\* initialization attempt k uses (API call c uses record c)
AttemptSlot(k) == MaxKsCalls + k

\* the progress values _initializeServices reports; a callback is given by the
\* value at which it throws, NeverThrows for none or one that returns
NeverThrows == 0
ProgressValues == {10, 50, 80, 100}
Callbacks == {NeverThrows} \cup ProgressValues

\* queries are sequences of characters
Queries == {<<>>, <<" ">>, <<"a">>, <<" ", "a">>}

RECURSIVE TrimStart(_)
TrimStart(q) == IF q # <<>> /\ Head(q) = " " THEN TrimStart(Tail(q)) ELSE q

RECURSIVE TrimEnd(_)
TrimEnd(q) == IF q # <<>> /\ q[Len(q)] = " " THEN TrimEnd(SubSeq(q, 1, Len(q) - 1)) ELSE q

\* String.prototype.trim
Trim(q) == TrimEnd(TrimStart(q))

\* att: the initialization promise the call awaits; started: the call started
\* that attempt; joined: the attempt that was pending when the call was made;
\* progress: the percentages processDocument has passed to onProgress;
\* extraction: the outcome extractTextFromFile returned; stored: the records
\* of the document in the table when the call returned
NoKsCall == [op |-> "none", pc |-> "idle", att |-> None, joined |-> None,
             started |-> FALSE, query |-> <<>>, extraction |-> "none",
             success |-> FALSE, error |-> "",
             chunks |-> <<>>, embeddings |-> <<>>, results |-> <<>>,
             successRate |-> 0, stored |-> <<>>, options |-> NoOptions,
             progress |-> <<>>]

NoKsAttempt == [state |-> "unused", pc |-> "idle", throwsAt |-> NeverThrows,
                esInits |-> 0, vsInits |-> 0]

KsInit ==
    /\ ksIsInitialized = FALSE
    /\ ksInitializationPromise = None
    /\ ksAttempt = [k \in KsAttemptIds |-> NoKsAttempt]
    /\ ksCreated = 0
    /\ ksCalls = [c \in KsCallIds |-> NoKsCall]

\* the attempts whose promise is pending
KsPendingAttempts == {k \in KsAttemptIds : ksAttempt[k].state = "pending"}

\* an initialize() that starts an attempt whatever promise is stored
KsJoinsNever == FALSE

\* initialize(): this.initializationPromise is set, the call returns it
KsJoins == ksInitializationPromise # None

\* initialize(): what the caller ends up awaiting. None: the call returns at
\* once; else the stored promise or the promise of the attempt it starts.
KsInitializeAwaits ==
    IF ksIsInitialized THEN None
    ELSE IF KsJoins THEN ksInitializationPromise
    ELSE ksCreated + 1

KsStartsAttempt == ~ksIsInitialized /\ ~KsJoins

\* the catch block of _initializeServices: the stored promise is cleared and
\* the attempt's promise rejects
KsAttemptFails(k) ==
    /\ ksAttempt' = [ksAttempt EXCEPT ![k].state = "rejected", ![k].pc = "idle"]
    /\ ksInitializationPromise' = None

\* initialize(onProgress) up to its await. When it starts an attempt,
\* _initializeServices runs up to its first suspension: onProgress is called
\* with 10 (if it throws, the catch block clears this.initializationPromise,
\* and the attempt's promise is already rejected when initialize stores it),
\* then embeddingService.initialize() is called.
KsInitialize(cb, esThrows) ==
    IF KsStartsAttempt
    THEN LET k == ksCreated + 1 IN
         /\ ksCreated' = k
         /\ ksInitializationPromise' = k
         /\ IF cb = 10
            THEN /\ ksAttempt' = [ksAttempt EXCEPT ![k] =
                                    [NoKsAttempt EXCEPT !.state = "rejected",
                                                        !.throwsAt = cb]]
                 /\ UNCHANGED esVars
            ELSE /\ ksAttempt' = [ksAttempt EXCEPT ![k] =
                                    [NoKsAttempt EXCEPT !.state = "pending", !.pc = "es",
                                                        !.throwsAt = cb, !.esInits = 1]]
                 /\ EsCallStart(AttemptSlot(k), "initialize", <<>>, esThrows)
    ELSE UNCHANGED <<ksCreated, ksInitializationPromise, ksAttempt, esVars>>

\* an API call, up to the await of this.initialize()
KsCallStart(c, op, query, options, cb, esThrows) ==
    /\ ksCalls[c].op = "none" /\ \A d \in 1 .. c - 1 : ksCalls[d].op # "none"
    /\ ksCalls' = [ksCalls EXCEPT ![c] =
                     [NoKsCall EXCEPT !.op = op, !.pc = "awaitInit", !.query = query,
                                      !.options = options,
                                      !.att = KsInitializeAwaits,
                                      !.started = KsStartsAttempt,
                                      !.joined = IF KsPendingAttempts # {}
                                                 THEN CHOOSE k \in KsPendingAttempts : TRUE
                                                 ELSE None]]
    /\ KsInitialize(cb, esThrows)
    /\ UNCHANGED <<ksIsInitialized, vsVars, workerVars, pureVars>>

\* _initializeServices, attempt k: embeddingService.initialize() settled. On
\* success onProgress is called with 50 and vectorStorageService.initialize()
\* is called; a failure is caught.
KsInitializeServicesEsDone(k) ==
    /\ ksAttempt[k].state = "pending" /\ ksAttempt[k].pc = "es"
    /\ esCalls[AttemptSlot(k)].pc \in {"resolved", "rejected"}
    /\ IF esCalls[AttemptSlot(k)].pc = "resolved" /\ ksAttempt[k].throwsAt # 50
       THEN /\ ksAttempt' = [ksAttempt EXCEPT ![k].pc = "vs", ![k].vsInits = @ + 1]
            /\ VsCallStart(AttemptSlot(k), "initialize", <<>>, <<>>, NoOptions, None)
            /\ UNCHANGED ksInitializationPromise
       ELSE /\ KsAttemptFails(k)
            /\ UNCHANGED vsVars
    /\ UNCHANGED <<ksIsInitialized, ksCreated, ksCalls, esVars, workerVars, pureVars>>

\* _initializeServices, attempt k: vectorStorageService.initialize() settled.
\* On success onProgress is called with 80, isInitialized is set and
\* onProgress is called with 100.
KsInitializeServicesVsDone(k) ==
    /\ ksAttempt[k].state = "pending" /\ ksAttempt[k].pc = "vs"
    /\ vsCalls[AttemptSlot(k)].pc \in {"resolved", "rejected"}
    /\ IF vsCalls[AttemptSlot(k)].pc = "rejected" \/ ksAttempt[k].throwsAt = 80
       THEN /\ KsAttemptFails(k)
            /\ UNCHANGED ksIsInitialized
       ELSE /\ ksIsInitialized' = TRUE
            /\ IF ksAttempt[k].throwsAt = 100
               THEN KsAttemptFails(k)
               ELSE /\ ksAttempt' = [ksAttempt EXCEPT ![k].state = "resolved",
                                                      ![k].pc = "idle"]
                    /\ UNCHANGED ksInitializationPromise
    /\ UNCHANGED <<ksCreated, ksCalls, esVars, vsVars, workerVars, pureVars>>

\* the awaited initialization of call c has settled
KsInitSettled(c) ==
    /\ ksCalls[c].pc = "awaitInit"
    /\ ksCalls[c].att # None => ksAttempt[ksCalls[c].att].state # "pending"

KsInitRejected(c) == ksCalls[c].att # None /\ ksAttempt[ksCalls[c].att].state = "rejected"

\* initialize(): the awaited promise settled and the call completes with it
KsInitializeResume(c) ==
    /\ ksCalls[c].op = "initialize"
    /\ KsInitSettled(c)
    /\ ksCalls' = [ksCalls EXCEPT ![c].pc = IF KsInitRejected(c) THEN "rejected"
                                                              ELSE "resolved"]
    /\ UNCHANGED <<ksIsInitialized, ksInitializationPromise, ksAttempt, ksCreated,
                   esVars, vsVars, workerVars, pureVars>>

\* processDocument: await this.initialize() is outside the try block, so a
\* failed initialization rejects the call; else extractTextFromFile is called
KsProcessDocumentResume(c) ==
    /\ ksCalls[c].op = "processDocument"
    /\ KsInitSettled(c)
    /\ ksCalls' = [ksCalls EXCEPT ![c].pc = IF KsInitRejected(c) THEN "rejected"
                                                              ELSE "extract",
                                  ![c].progress = IF KsInitRejected(c) THEN @
                                                  ELSE Append(@, 0)]
    /\ UNCHANGED <<ksIsInitialized, ksInitializationPromise, ksAttempt, ksCreated,
                   esVars, vsVars, workerVars, pureVars>>

RECURSIVE ChunkIdsOf(_, _)
\* the chunk ids of the records of document doc in records, in order
ChunkIdsOf(records, doc) ==
    IF records = <<>> THEN <<>>
    ELSE (IF Head(records).documentId = doc THEN <<Head(records).chunkId>> ELSE <<>>)
         \o ChunkIdsOf(Tail(records), doc)

\* the chunks of document doc that have a record in the table
DocumentRecords(doc) == ChunkIdsOf(vsRecords, doc)

\* the result processDocument returns
ProcessingResult(call, success, error, chunks, embeddings) ==
    [call EXCEPT !.pc = "resolved", !.success = success, !.error = error,
                 !.chunks = chunks, !.embeddings = embeddings]

\* processDocument that does not test extractionResult.success
KsExtractionDoneUnchecked(c, ok, n) ==
    /\ ksCalls[c].op = "processDocument" /\ ksCalls[c].pc = "extract"
    /\ ksCalls' = [ksCalls EXCEPT ![c].pc = "embed",
                                  ![c].extraction = IF ok THEN "ok" ELSE "failed",
                                  ![c].chunks = IF ok THEN ChunkIds(c, n) ELSE <<>>]
    /\ EsCallStart(c, "generateBatchEmbeddings", IF ok THEN ChunkIds(c, n) ELSE <<>>, FALSE)
    /\ UNCHANGED <<ksIsInitialized, ksInitializationPromise, ksAttempt, ksCreated,
                   vsVars, workerVars, pureVars>>

\* processDocument: extractTextFromFile settled. It returns a failure
\* (validation, extraction error, no readable text) or n chunks with the
\* document's metadata; on success generateBatchEmbeddings is called.
KsExtractionDone(c, ok, n) ==
    /\ ksCalls[c].op = "processDocument" /\ ksCalls[c].pc = "extract"
    /\ IF ok
       THEN /\ ksCalls' = [ksCalls EXCEPT ![c].pc = "embed", ![c].extraction = "ok",
                                          ![c].chunks = ChunkIds(c, n),
                                          ![c].progress = @ \o <<20, 30>>]
            /\ EsCallStart(c, "generateBatchEmbeddings", ChunkIds(c, n), FALSE)
       ELSE /\ ksCalls' = [ksCalls EXCEPT ![c] =
                             ProcessingResult([@ EXCEPT !.extraction = "failed"],
                                              FALSE, "extraction", <<>>, <<>>)]
            /\ UNCHANGED esVars
    /\ UNCHANGED <<ksIsInitialized, ksInitializationPromise, ksAttempt, ksCreated,
                   vsVars, workerVars, pureVars>>

\* successRate.toFixed(0): successCount / total * 100, rounded half up
SuccessRate(successCount, total) == (successCount * 200 + total) \div (2 * total)

\* processDocument: generateBatchEmbeddings settled. With at least one
\* embedding storeEmbeddings is called; with none the result is returned.
KsEmbeddingDone(c) ==
    /\ ksCalls[c].op = "processDocument" /\ ksCalls[c].pc = "embed"
    /\ esCalls[c].pc \in {"resolved", "rejected"}
    /\ LET call == ksCalls[c]
           embeddingResult == esCalls[c] IN
       IF embeddingResult.pc = "rejected"
       THEN /\ ksCalls' = [ksCalls EXCEPT ![c] =
                             [ProcessingResult(call, FALSE, "embedding", <<>>, <<>>)
                                 EXCEPT !.stored = DocumentRecords(c)]]
            /\ UNCHANGED vsVars
       ELSE IF Len(embeddingResult.results) > 0
       THEN /\ ksCalls' = [ksCalls EXCEPT ![c].pc = "store",
                              ![c].progress = @ \o <<70, 80>>,
                              ![c].embeddings = embeddingResult.results,
                              ![c].successRate =
                                  SuccessRate(embeddingResult.successCount, Len(call.chunks))]
            /\ VsCallStart(c, "storeEmbeddings", call.chunks, embeddingResult.results, NoOptions, None)
       ELSE /\ ksCalls' = [ksCalls EXCEPT ![c] =
                             [ProcessingResult(call, TRUE, "", call.chunks,
                                               embeddingResult.results)
                                 EXCEPT !.successRate =
                                          SuccessRate(embeddingResult.successCount,
                                                      Len(call.chunks)),
                                        !.progress = Append(@, 70),
                                        !.stored = DocumentRecords(c)]]
            /\ UNCHANGED vsVars
    /\ UNCHANGED <<ksIsInitialized, ksInitializationPromise, ksAttempt, ksCreated,
                   esVars, workerVars, pureVars>>

\* a processDocument that reports 'Storage complete' whatever storeEmbeddings did
KsStorageDoneReportsComplete(c) ==
    /\ ksCalls[c].op = "processDocument" /\ ksCalls[c].pc = "store"
    /\ vsCalls[c].pc \in {"resolved", "rejected"}
    /\ ksCalls' = [ksCalls EXCEPT ![c] =
                     [(IF vsCalls[c].pc = "resolved"
                       THEN ProcessingResult(@, TRUE, "", @.chunks, @.embeddings)
                       ELSE ProcessingResult(@, FALSE, "storage", <<>>, <<>>))
                         EXCEPT !.stored = DocumentRecords(c),
                                !.progress = Append(@, 100)]]
    /\ UNCHANGED <<ksIsInitialized, ksInitializationPromise, ksAttempt, ksCreated,
                   esVars, vsVars, workerVars, pureVars>>

\* processDocument: storeEmbeddings settled; 'Storage complete', 100 is
\* reported after it; a storage error is caught and returned as a failed result
KsStorageDone(c) ==
    /\ ksCalls[c].op = "processDocument" /\ ksCalls[c].pc = "store"
    /\ vsCalls[c].pc \in {"resolved", "rejected"}
    /\ ksCalls' = [ksCalls EXCEPT ![c] =
                     [(IF vsCalls[c].pc = "resolved"
                       THEN ProcessingResult(@, TRUE, "", @.chunks, @.embeddings)
                       ELSE ProcessingResult(@, FALSE, "storage", <<>>, <<>>))
                         EXCEPT !.stored = DocumentRecords(c),
                                !.progress = IF vsCalls[c].pc = "resolved"
                                             THEN Append(@, 100) ELSE @]]
    /\ UNCHANGED <<ksIsInitialized, ksInitializationPromise, ksAttempt, ksCreated,
                   esVars, vsVars, workerVars, pureVars>>

\* search: await this.initialize() comes first and is outside the try block;
\* then a query that trims to the empty string returns [], else the trimmed
\* query is embedded
KsSearchResume(c) ==
    /\ ksCalls[c].op = "search"
    /\ KsInitSettled(c)
    /\ IF KsInitRejected(c)
       THEN /\ ksCalls' = [ksCalls EXCEPT ![c].pc = "rejected"]
            /\ UNCHANGED esVars
       ELSE IF Trim(ksCalls[c].query) = <<>>
       THEN /\ ksCalls' = [ksCalls EXCEPT ![c].pc = "resolved", ![c].results = <<>>]
            /\ UNCHANGED esVars
       ELSE /\ ksCalls' = [ksCalls EXCEPT ![c].pc = "embed"]
            /\ EsCallStart(c, "generateEmbedding", <<Trim(ksCalls[c].query)>>, FALSE)
    /\ UNCHANGED <<ksIsInitialized, ksInitializationPromise, ksAttempt, ksCreated,
                   vsVars, workerVars, pureVars>>

\* a || b of JavaScript on numbers: b when a is undefined or 0
OrDefault(a, b) == IF a = Undefined \/ a = 0 THEN b ELSE a

\* the options search hands to vectorStorageService.search
KsVsSearchOptions(options) ==
    [limit |-> OrDefault(options.limit, ksDefaultLimit),
     minScore |-> OrDefault(options.minScore, ksDefaultMinScore),
     documentIds |-> options.documentIds]

\* search: generateEmbedding settled; the catch block rethrows a failure
KsSearchEmbeddingDone(c) ==
    /\ ksCalls[c].op = "search" /\ ksCalls[c].pc = "embed"
    /\ esCalls[c].pc \in {"resolved", "rejected"}
    /\ IF esCalls[c].pc = "resolved"
       THEN /\ ksCalls' = [ksCalls EXCEPT ![c].pc = "vsearch"]
            /\ VsCallStart(c, "search", <<>>, <<>>, KsVsSearchOptions(ksCalls[c].options), None)
       ELSE /\ ksCalls' = [ksCalls EXCEPT ![c].pc = "rejected", ![c].error = "Search failed"]
            /\ UNCHANGED vsVars
    /\ UNCHANGED <<ksIsInitialized, ksInitializationPromise, ksAttempt, ksCreated,
                   esVars, workerVars, pureVars>>

\* search: vectorStorageService.search settled
KsSearchDone(c) ==
    /\ ksCalls[c].op = "search" /\ ksCalls[c].pc = "vsearch"
    /\ vsCalls[c].pc \in {"resolved", "rejected"}
    /\ ksCalls' = [ksCalls EXCEPT
                     ![c].pc = vsCalls[c].pc,
                     ![c].results = IF vsCalls[c].pc = "resolved" THEN vsCalls[c].results ELSE <<>>,
                     ![c].error = IF vsCalls[c].pc = "resolved" THEN "" ELSE "Search failed"]
    /\ UNCHANGED <<ksIsInitialized, ksInitializationPromise, ksAttempt, ksCreated,
                   esVars, vsVars, workerVars, pureVars>>

\* the API calls; processDocument and search call initialize() without a
\* callback, and their own progress callbacks are taken to return
KsApiInitialize(c, cb, esThrows) ==
    KsCallStart(c, "initialize", <<>>, NoOptions, cb, esThrows)

KsApiProcessDocument(c, esThrows) ==
    KsCallStart(c, "processDocument", <<>>, NoOptions, NeverThrows, esThrows)

\* the options of a caller of search; an absent options object reads as
\* every field undefined
KsSearchOptions ==
    {[NoOptions EXCEPT !.limit = o[1], !.minScore = o[2]] :
        o \in {<<Undefined, Undefined>>, <<1, 0>>, <<0, 50>>, <<1, 50>>}}

KsApiSearch(c, query, options, esThrows) ==
    KsCallStart(c, "search", query, options, NeverThrows, esThrows)

Next ==
    \/ \E c \in KsCallIds, cb \in Callbacks, esThrows \in BOOLEAN :
          KsApiInitialize(c, cb, esThrows)
    \/ \E c \in KsCallIds, esThrows \in BOOLEAN : KsApiProcessDocument(c, esThrows)
    \/ \E c \in KsCallIds, query \in Queries, options \in KsSearchOptions,
          esThrows \in BOOLEAN :
          KsApiSearch(c, query, options, esThrows)
    \/ \E k \in KsAttemptIds : KsInitializeServicesEsDone(k)
    \/ \E k \in KsAttemptIds : KsInitializeServicesVsDone(k)
    \/ \E c \in KsCallIds : KsInitializeResume(c)
    \/ \E c \in KsCallIds : KsProcessDocumentResume(c)
    \/ \E c \in KsCallIds, ok \in BOOLEAN, n \in 1 .. MaxDocChunks : KsExtractionDone(c, ok, n)
    \/ \E c \in KsCallIds : KsEmbeddingDone(c)
    \/ \E c \in KsCallIds : KsStorageDone(c)
    \/ \E c \in KsCallIds : KsSearchResume(c)
    \/ \E c \in KsCallIds : KsSearchEmbeddingDone(c)
    \/ \E c \in KsCallIds : KsSearchDone(c)
    \/ EsSteps
    \/ VsSteps

-----------------------------------------------------------------------------
(***************************************************************************)
(* chunkText and validateChunks (mockServices.ts)                          *)
(* A text is a sequence of characters; "a" stands for the characters \w    *)
(* matches, " " for white space, "." for every other character.  Positions *)
(* are 0-based as in the source.                                           *)
(***************************************************************************)
Alphabet == {"a", " ", "."}

Texts == UNION {[1..n -> Alphabet] : n \in 0..MaxTextLen}

\* \w
IsWordChar(c) == c = "a"

\* the last character (1-based) of the match of \w+ that starts at i
MatchEnd(t, i) ==
    CHOOSE j \in i..Len(t) :
        /\ \A k \in i..j : IsWordChar(t[k])
        /\ j = Len(t) \/ ~IsWordChar(t[j + 1])

\* wordRegex.exec(text) repeated from lastIndex = i - 1
RECURSIVE ExecFrom(_, _)
ExecFrom(t, i) ==
    IF i > Len(t) THEN <<>>
    ELSE IF IsWordChar(t[i])
         THEN <<[word |-> SubSeq(t, i, MatchEnd(t, i)), position |-> i - 1]>>
                  \o ExecFrom(t, MatchEnd(t, i) + 1)
         ELSE ExecFrom(t, i + 1)

splitIntoWords(t) == ExecFrom(t, 1)

\* wordIndex is 0-based
getCharacterPosition(words, wordIndex) ==
    IF wordIndex >= Len(words)
    THEN words[Len(words)].position + Len(words[Len(words)].word)
    ELSE words[wordIndex + 1].position

extractTextBetweenPositions(t, startPos, endPos) ==
    Trim(SubSeq(t, startPos + 1, endPos))

\* the chunk of an iteration that numbers every chunk 0
WindowChunkUnnumbered(t, words, currentWordIndex, chunkIndex, documentId) ==
    LET endWordIndex == Min(currentWordIndex + maxWordsPerChunk, Len(words))
        startPosition == getCharacterPosition(words, currentWordIndex)
        endPosition == getCharacterPosition(words, endWordIndex)
    IN  [documentId |-> documentId,
         chunkIndex |-> 0,
         text |-> extractTextBetweenPositions(t, startPosition, endPosition),
         wordCount |-> endWordIndex - currentWordIndex,
         startPosition |-> startPosition,
         endPosition |-> endPosition]

\* the chunk pushed by one iteration of the while loop
WindowChunk(t, words, currentWordIndex, chunkIndex, documentId) ==
    LET endWordIndex == Min(currentWordIndex + maxWordsPerChunk, Len(words))
        startPosition == getCharacterPosition(words, currentWordIndex)
        endPosition == getCharacterPosition(words, endWordIndex)
    IN  [documentId |-> documentId,
         chunkIndex |-> chunkIndex,
         text |-> extractTextBetweenPositions(t, startPosition, endPosition),
         wordCount |-> endWordIndex - currentWordIndex,
         startPosition |-> startPosition,
         endPosition |-> endPosition]

\* a step that leaves no overlap
WindowStepWithoutOverlap == maxWordsPerChunk

\* a step that leaves one word between consecutive windows
WindowStepSkippingWord == maxWordsPerChunk + 1

\* words by which currentWordIndex moves forward
WindowStep == Max(maxWordsPerChunk - overlapWords, 1)

\* the while loop, from the iteration that starts at currentWordIndex
RECURSIVE SlidingWindow(_, _, _, _, _)
SlidingWindow(t, words, currentWordIndex, chunkIndex, documentId) ==
    IF currentWordIndex >= Len(words) THEN <<>>
    ELSE <<WindowChunk(t, words, currentWordIndex, chunkIndex, documentId)>> \o
         (IF Min(currentWordIndex + maxWordsPerChunk, Len(words)) >= Len(words)
          THEN <<>>
          ELSE SlidingWindow(t, words,
                             currentWordIndex + WindowStep,
                             chunkIndex + 1, documentId))

\* chunkText without its single-chunk branch
chunkTextAlwaysWindow(t, documentId) ==
    SlidingWindow(t, splitIntoWords(t), 0, 0, documentId)

\* the id field (generateId()) plays no part in what follows and is left out
chunkText(t, documentId) ==
    LET words == splitIntoWords(t)
    IN  IF Len(words) <= minChunkWords
        THEN <<[documentId |-> documentId,
                chunkIndex |-> 0,
                text |-> Trim(t),
                wordCount |-> Len(words),
                startPosition |-> 0,
                endPosition |-> Len(t)]>>
        ELSE SlidingWindow(t, words, 0, 0, documentId)

\* the errors pushed for the 0-based chunk positions in S, in their order
ErrorsAt(kind, S) ==
    [k \in 1..Cardinality(S) |-> [kind |-> kind, at |-> Ascending(S)[k]]]

validateChunks(cs) ==
    LET emptyChunks == {i \in 0..(Len(cs) - 1) : Trim(cs[i + 1].text) = <<>>}
        tinyChunks == {i \in 0..(Len(cs) - 2) : cs[i + 1].wordCount < minChunkWords}
        mismatches == {i \in 0..(Len(cs) - 1) : cs[i + 1].chunkIndex # i}
        excessive == {i \in 0..(Len(cs) - 2) :
                        /\ cs[i + 1].endPosition > cs[i + 2].startPosition
                        /\ 2 * (cs[i + 1].endPosition - cs[i + 2].startPosition)
                               > Len(cs[i + 1].text)}
        errors == (IF emptyChunks # {}
                   THEN <<[kind |-> "empty", at |-> Cardinality(emptyChunks)]>>
                   ELSE <<>>)
                  \o (IF tinyChunks # {}
                      THEN <<[kind |-> "tiny", at |-> Cardinality(tinyChunks)]>>
                      ELSE <<>>)
                  \o ErrorsAt("index", mismatches)
                  \o ErrorsAt("overlap", excessive)
    IN  [isValid |-> errors = <<>>, errors |-> errors]

DocumentId == 1

NotValidated == [isValid |-> TRUE, errors |-> <<>>]

\* no text has been chunked
ChunkerIdle ==
    /\ chunkerText = <<>>
    /\ chunkerChunks = <<>>
    /\ validation = NotValidated
    /\ chunkerPc = "text"

\* chunkText(text, documentId)
ChunkText ==
    /\ chunkerPc = "text"
    /\ chunkerChunks' = chunkText(chunkerText, DocumentId)
    /\ chunkerPc' = "chunked"
    /\ UNCHANGED <<chunkerText, validation, nonChunkVars>>

\* validateChunks(chunks)
ValidateChunks ==
    /\ chunkerPc = "chunked"
    /\ validation' = validateChunks(chunkerChunks)
    /\ chunkerPc' = "validated"
    /\ UNCHANGED <<chunkerText, chunkerChunks, nonChunkVars>>

ChunkNext ==
    \/ ChunkText
    \/ ValidateChunks

-----------------------------------------------------------------------------
(***************************************************************************)
(* generateRelevanceReason (knowledgeSearchService.ts)                     *)
(* Scores are in hundredths: 80 stands for 0.8.                            *)
(***************************************************************************)
MaxScore == 120
Scores == 0 .. MaxScore

generateRelevanceReasonAbove(score) ==
    IF score > 80 THEN "Very high relevance"
    ELSE IF score > 70 THEN "High relevance"
    ELSE IF score > 60 THEN "Good relevance"
    ELSE IF score > 50 THEN "Moderate relevance"
    ELSE "Low relevance"

generateRelevanceReason(score) ==
    IF score >= 80 THEN "Very high relevance"
    ELSE IF score >= 70 THEN "High relevance"
    ELSE IF score >= 60 THEN "Good relevance"
    ELSE IF score >= 50 THEN "Moderate relevance"
    ELSE "Low relevance"

ReasonIdle ==
    /\ reasonScore = 0
    /\ relevanceReason = ""

\* generateRelevanceReason(score)
GenerateRelevanceReason ==
    /\ relevanceReason = ""
    /\ relevanceReason' = generateRelevanceReason(reasonScore)
    /\ UNCHANGED <<reasonScore, nonReasonVars>>

ReasonNext == GenerateRelevanceReason

-----------------------------------------------------------------------------
(***************************************************************************)
(* mockKnowledgeSearchService.search (mockServices.ts)                     *)
(* mockChunks is kept in insertion order; every document in it has its     *)
(* entry in mockDocuments, since processDocument and deleteDocument change *)
(* the two maps together.                                                  *)
(***************************************************************************)
MaxMockDocs == 2
MaxMockChunks == 2
mockDefaultLimit == 20

\* chunk texts: "A" is an upper-case letter
MockTexts == {<<"a">>, <<"A">>, <<"b">>, <<"b", " ", "a">>}
MockDocs == UNION {[1 .. n -> MockTexts] : n \in 1 .. MaxMockChunks}
MockStores == UNION {[1 .. n -> MockDocs] : n \in 0 .. MaxMockDocs}

MockOptions == [limit : {Undefined, 0, 1, 2}]

NoMockCall == [pc |-> "idle", query |-> <<>>, options |-> [limit |-> Undefined],
               results |-> <<>>]

MockIdle ==
    /\ mockChunks = <<>>
    /\ mockCall = NoMockCall

\* String.prototype.toLowerCase
toLowerCase(str) == [k \in DOMAIN str |-> IF str[k] = "A" THEN "a" ELSE str[k]]

\* String.prototype.includes
includes(str, searchString) ==
    \E k \in 0 .. Len(str) - Len(searchString) :
        SubSeq(str, k + 1, k + Len(searchString)) = searchString

IsMatch(result) == result.matched

\* the inner loop: the results of the chunks of document docId that contain
\* the query, with score 0.8 - i * 0.1 for the chunk at index i
MockDocumentResults(docId, chunks, queryLower) ==
    SelectSeq([k \in DOMAIN chunks |->
                  [documentId |-> docId, chunkId |-> <<docId, k>>,
                   score |-> 80 - (k - 1) * 10,
                   matched |-> includes(toLowerCase(chunks[k]), queryLower)]],
              IsMatch)

\* the outer loop over mockChunks.entries(), from document docId on
RECURSIVE MockResults(_, _)
MockResults(docId, queryLower) ==
    IF docId > Len(mockChunks) THEN <<>>
    ELSE MockDocumentResults(docId, mockChunks[docId], queryLower)
             \o MockResults(docId + 1, queryLower)

\* results.sort((a, b) => b.score - a.score); Array.prototype.sort is stable
RECURSIVE SortByScoreDescending(_)
SortByScoreDescending(results) ==
    IF results = <<>> THEN <<>>
    ELSE LET k == CHOOSE x \in DOMAIN results : \A y \in DOMAIN results :
                      \/ results[x].score > results[y].score
                      \/ results[x].score = results[y].score /\ x <= y
         IN  <<results[k]>> \o
             SortByScoreDescending(SubSeq(results, 1, k - 1)
                                       \o SubSeq(results, k + 1, Len(results)))

\* Array.prototype.slice(0, end)
slice(array, end) ==
    SubSeq(array, 1, IF end < 0 THEN Max(Len(array) + end, 0) ELSE Min(end, Len(array)))

\* search(query, options)
mockSearch(query, options) ==
    IF Trim(query) = <<>> THEN <<>>
    ELSE LET results == SortByScoreDescending(MockResults(1, toLowerCase(query)))
             limit == OrDefault(options.limit, mockDefaultLimit)
         IN  slice(results, limit)

\* search has no await before it returns: one step
MockSearch(query, options) ==
    /\ mockCall.pc = "idle"
    /\ mockCall' = [pc |-> "resolved", query |-> query, options |-> options,
                    results |-> mockSearch(query, options)]
    /\ UNCHANGED <<mockChunks, nonMockVars>>

MockNext == \E query \in Queries, options \in MockOptions : MockSearch(query, options)

-----------------------------------------------------------------------------
(***************************************************************************)
(* generateSnippet (knowledgeSearchService.ts)                             *)
(* The text and the query are given as the words split(/\s+/) yields.  The *)
(* sizes are scaled down: a window of windowWords words stands for the     *)
(* window of 20, snippetWords for the 25 words of the snippet, maxLength    *)
(* for the 150 characters.                                                 *)
(***************************************************************************)
windowWords == 2
snippetWords == 3
maxLength == 8
MaxSnippetText == 4
MaxQueryWords == 3

SnippetTextWords == {<<"a">>, <<"b">>, <<"c">>}
SnippetQueryWords == {<<"A">>, <<"b">>}
SnippetTexts == UNION {[1 .. n -> SnippetTextWords] : n \in 1 .. MaxSnippetText}
SnippetQueries == UNION {[1 .. n -> SnippetQueryWords] : n \in 1 .. MaxQueryWords}

\* Array.prototype.slice(start, end) with 0 <= start
sliceFrom(array, start, end) == SubSeq(array, start + 1, Min(end, Len(array)))

\* Array.prototype.join(' ')
RECURSIVE join(_)
join(words) ==
    IF words = <<>> THEN <<>>
    ELSE IF Len(words) = 1 THEN words[1]
    ELSE words[1] \o <<" ">> \o join(Tail(words))

\* queryWords.reduce((acc, qWord) => acc + (window.includes(qWord) ? 1 : 0), 0)
RECURSIVE windowScore(_, _)
windowScore(window, queryWords) ==
    IF queryWords = <<>> THEN 0
    ELSE (IF includes(window, Head(queryWords)) THEN 1 ELSE 0)
         + windowScore(window, Tail(queryWords))

\* words.slice(i, i + 20).join(' ').toLowerCase()
WindowAt(words, i) == toLowerCase(join(sliceFrom(words, i, i + windowWords)))

\* the loop for (let i = 0; i < Math.max(0, words.length - 20); i++), from i
\* on, with the best start and score so far
RECURSIVE bestStartFrom(_, _, _, _, _)
bestStartFrom(words, queryWords, i, bestStart, bestScore) ==
    IF i >= Max(0, Len(words) - windowWords) THEN bestStart
    ELSE LET score == windowScore(WindowAt(words, i), queryWords) IN
         IF score > bestScore
         THEN bestStartFrom(words, queryWords, i + 1, i, score)
         ELSE bestStartFrom(words, queryWords, i + 1, bestStart, bestScore)

\* query.toLowerCase().split(/\s+/)
LowerCaseWords(queryWords) == [k \in DOMAIN queryWords |-> toLowerCase(queryWords[k])]

bestStartOf(words, queryWords) ==
    bestStartFrom(words, LowerCaseWords(queryWords), 0, 0, 0)

Ellipsis == <<".", ".", ".">>

\* generateSnippet(text, query), after the loop
generateSnippet(words, queryWords) ==
    LET bestStart == bestStartOf(words, queryWords)
        joined == join(sliceFrom(words, bestStart, bestStart + snippetWords))
        cut == IF Len(joined) > maxLength THEN slice(joined, maxLength) \o Ellipsis
               ELSE joined
    IN  IF bestStart > 0 THEN Ellipsis \o cut ELSE cut

NoSnippetCall == [pc |-> "idle", words |-> <<>>, queryWords |-> <<>>, bestStart |-> 0,
                  snippet |-> <<>>]

SnippetIdle == snippetCall = NoSnippetCall

\* generateSnippet(text, query)
GenerateSnippet ==
    /\ snippetCall.pc = "called"
    /\ snippetCall' = [snippetCall EXCEPT
                         !.pc = "returned",
                         !.bestStart = bestStartOf(snippetCall.words, snippetCall.queryWords),
                         !.snippet = generateSnippet(snippetCall.words,
                                                     snippetCall.queryWords)]
    /\ UNCHANGED <<truncateCall, nonTextVars>>

SnippetNext == GenerateSnippet

-----------------------------------------------------------------------------
(***************************************************************************)
(* truncateText (embeddingService.ts)                                      *)
(* maxChars stands for EMBEDDING_CONFIG.maxTokens * 4 = 1536 characters.   *)
(***************************************************************************)
maxChars == 4
MaxTruncateText == 8

TruncateTexts == UNION {[1 .. n -> {"a", " "}] : n \in 0 .. MaxTruncateText}

\* String.prototype.lastIndexOf(' '): 0-based, -1 when there is none
lastIndexOfSpace(str) ==
    IF \E k \in DOMAIN str : str[k] = " "
    THEN (CHOOSE k \in DOMAIN str : str[k] = " " /\ \A j \in DOMAIN str : str[j] = " " => j <= k) - 1
    ELSE -1

\* truncateText(text)
truncateText(str) ==
    IF Len(str) <= maxChars THEN str
    ELSE LET truncated == slice(str, maxChars)
             lastSpaceIndex == lastIndexOfSpace(truncated)
         IN  IF lastSpaceIndex > 0 THEN slice(truncated, lastSpaceIndex) ELSE truncated

NoTruncateCall == [pc |-> "idle", text |-> <<>>, result |-> <<>>]

TruncateIdle == truncateCall = NoTruncateCall

TextIdle == SnippetIdle /\ TruncateIdle

\* truncateText(text)
TruncateText ==
    /\ truncateCall.pc = "called"
    /\ truncateCall' = [truncateCall EXCEPT !.pc = "returned",
                                            !.result = truncateText(truncateCall.text)]
    /\ UNCHANGED <<snippetCall, nonTextVars>>

TruncateNext == TruncateText

-----------------------------------------------------------------------------
(***************************************************************************)
(* Specifications                                                          *)
(***************************************************************************)
\* the worker manager and its Workers
InitWorker == WorkerInit /\ EsInit /\ VsInit /\ KsInit /\ ChunkerIdle /\ ReasonIdle /\ MockIdle /\ TextIdle /\ vsTableExists = FALSE

SpecWorker == InitWorker /\ [][WorkerNext]_vars

SpecWorkerLive == InitWorker /\ [][WorkerLiveNext]_vars /\ WorkerFairness

\* the worker manager with a worker that echoes request ids
InitManager == WorkerInit /\ EsInit /\ VsInit /\ KsInit /\ ChunkerIdle /\ ReasonIdle /\ MockIdle /\ TextIdle /\ vsTableExists = FALSE

SpecManager == InitManager /\ [][ManagerNext]_vars

\* the same, with the timers of setTimeout: a timer that is not cleared fires
SpecManagerLive ==
    /\ InitManager /\ [][ManagerNext]_vars
    /\ \A id \in MgrCallIds : WF_vars(RequestTimeout(id))

\* the embedding service called directly
InitEmbed == WorkerInit /\ EsInit /\ VsInit /\ KsInit /\ ChunkerIdle /\ ReasonIdle /\ MockIdle /\ TextIdle /\ vsTableExists = FALSE

SpecEmbed == InitEmbed /\ [][EmbedNext]_vars

\* the orchestrator over the embedding service and the vector store
Init == WorkerInit /\ EsInit /\ VsInit /\ KsInit /\ ChunkerIdle /\ ReasonIdle /\ MockIdle /\ TextIdle

\* the vector store called directly
InitStore == WorkerInit /\ EsInit /\ VsInit /\ KsInit /\ ChunkerIdle /\ ReasonIdle /\ MockIdle /\ TextIdle

SpecStore == InitStore /\ [][StoreNext]_vars

\* the vector store constructed over the table of an earlier session, if any
InitTable ==
    /\ WorkerInit /\ EsInit /\ KsInit /\ ChunkerIdle /\ ReasonIdle /\ MockIdle /\ TextIdle
    /\ vsDb = None
    /\ vsTable = None
    /\ vsIsInitialized = FALSE
    /\ vsTableExists \in BOOLEAN
    /\ vsRecords \in TableContents
    /\ ~vsTableExists => vsRecords = <<>>
    /\ vsConnects = 0
    /\ vsOpens = 0
    /\ vsCalls = [c \in VsSlots |-> NoVsCall]

\* search over that table; the creation times play no part in it
InitSearch ==
    /\ InitTable
    /\ \A k \in DOMAIN vsRecords : vsRecords[k].createdAt = 0

SpecSearch == InitSearch /\ [][SearchNext]_vars

\* deleteDocument and listDocuments over that table
SpecCatalog == InitTable /\ [][CatalogNext]_vars

\* chunkText and validateChunks applied to every text of the bounded set
InitChunk ==
    /\ WorkerInit /\ EsInit /\ VsInit /\ KsInit /\ vsTableExists = FALSE
    /\ chunkerText \in Texts
    /\ chunkerChunks = <<>>
    /\ validation = NotValidated
    /\ chunkerPc = "text"
    /\ ReasonIdle /\ MockIdle /\ TextIdle

SpecChunk == InitChunk /\ [][ChunkNext]_vars

\* generateRelevanceReason applied to every score
InitReason ==
    /\ WorkerInit /\ EsInit /\ VsInit /\ KsInit /\ vsTableExists = FALSE
    /\ ChunkerIdle /\ MockIdle /\ TextIdle
    /\ reasonScore \in Scores
    /\ relevanceReason = ""

SpecReason == InitReason /\ [][ReasonNext]_vars

\* mockKnowledgeSearchService.search over every content of the mock store
InitMock ==
    /\ WorkerInit /\ EsInit /\ VsInit /\ KsInit /\ vsTableExists = FALSE
    /\ ChunkerIdle /\ ReasonIdle /\ TextIdle
    /\ mockChunks \in MockStores
    /\ mockCall = NoMockCall

SpecMock == InitMock /\ [][MockNext]_vars

\* generateSnippet applied to every text and query
InitSnippet ==
    /\ WorkerInit /\ EsInit /\ VsInit /\ KsInit /\ vsTableExists = FALSE
    /\ ChunkerIdle /\ ReasonIdle /\ MockIdle /\ TruncateIdle
    /\ \E words \in SnippetTexts, queryWords \in SnippetQueries :
          snippetCall = [NoSnippetCall EXCEPT !.pc = "called", !.words = words,
                                              !.queryWords = queryWords]

SpecSnippet == InitSnippet /\ [][SnippetNext]_vars

\* truncateText applied to every text
InitTruncate ==
    /\ WorkerInit /\ EsInit /\ VsInit /\ KsInit /\ vsTableExists = FALSE
    /\ ChunkerIdle /\ ReasonIdle /\ MockIdle /\ SnippetIdle
    /\ \E str \in TruncateTexts :
          truncateCall = [NoTruncateCall EXCEPT !.pc = "called", !.text = str]

SpecTruncate == InitTruncate /\ [][TruncateNext]_vars

Spec == Init /\ [][Next]_vars

-----------------------------------------------------------------------------
(***************************************************************************)
(* Properties                                                              *)
(***************************************************************************)
Range(f) == {f[x] : x \in DOMAIN f}

Count(seq, x) == Cardinality({k \in DOMAIN seq : seq[k] = x})

\* C1: every response a worker posts for a request carries that request's id
\* (responses echo the id of the request they answer).
C1_ResponsesEchoId ==
    \A w \in Workers : \A i \in 1 .. Len(outbox[w]) :
        outbox[w][i].re # None => outbox[w][i].id = outbox[w][i].re

\* C2: processDocument and search never return a rejected promise, whichever
\* of initialization, extraction, embedding or storage fails.
C2_NeverRejects ==
    \A c \in KsCallIds :
        ksCalls[c].op \in {"processDocument", "search"} => ksCalls[c].pc # "rejected"

\* the processDocument calls that returned a result after their batch of
\* embeddings returned
DoneDocuments ==
    {c \in KsCallIds : /\ ksCalls[c].op = "processDocument"
                       /\ ksCalls[c].pc = "resolved"
                       /\ ksCalls[c].extraction = "ok"
                       /\ esCalls[c].pc = "resolved"}

\* C3: when the batch embedding of a document's chunks yields no embedding,
\* processDocument does not call storeEmbeddings and returns success = false.
C3_NoEmbeddingsIsFailure ==
    \A c \in DoneDocuments :
        Len(esCalls[c].results) = 0 =>
            /\ vsCalls[c].op = "none"
            /\ ksCalls[c].success = FALSE

\* C4: while an initialization attempt is in flight only that attempt runs:
\* a call made meanwhile starts no attempt and awaits the one in flight, the
\* attempt calls embeddingService.initialize and
\* vectorStorageService.initialize at most once each, and every initialize()
\* call completes with the outcome of the attempt it awaited.
C4_OneAttemptInFlight ==
    /\ Cardinality(KsPendingAttempts) <= 1
    /\ \A c \in KsCallIds :
          ksCalls[c].joined # None =>
              /\ ~ksCalls[c].started
              /\ ksCalls[c].att = ksCalls[c].joined
    /\ \A k \in KsAttemptIds :
          /\ ksAttempt[k].esInits <= 1 /\ ksAttempt[k].vsInits <= 1
          /\ ksAttempt[k].state = "pending" =>
                \A j \in KsAttemptIds \ {k} :
                    /\ esCalls[AttemptSlot(j)].pc \notin {"awaitInit"}
                    /\ vsCalls[AttemptSlot(j)].pc \in {"idle", "resolved", "rejected"}
    /\ \A c \in KsCallIds :
          (/\ ksCalls[c].op = "initialize"
           /\ ksCalls[c].pc \in {"resolved", "rejected"}
           /\ ksCalls[c].att # None) =>
              ksCalls[c].pc = ksAttempt[ksCalls[c].att].state

\* two initialize() calls shared one attempt, which failed after its first
\* suspension, and both were rejected
C4_Witness ==
    \E c, d \in KsCallIds :
        /\ c # d
        /\ ksCalls[c].op = "initialize" /\ ksCalls[d].op = "initialize"
        /\ ksCalls[c].started
        /\ ksCalls[d].joined = ksCalls[c].att
        /\ ksCalls[c].pc = "rejected" /\ ksCalls[d].pc = "rejected"

\* C5: after an initialization attempt of the orchestrator fails, at whichever
\* step, the service does not keep the failed attempt's promise: the next
\* initialize() starts a fresh attempt.
C5_FailedAttemptIsReset ==
    ksInitializationPromise # None =>
        ksAttempt[ksInitializationPromise].state # "rejected"

\* C6: after a backend setup attempt of the EmbeddingService fails, the shared
\* initialization state is reset: the service never holds on to the promise
\* of a failed attempt, so a later call sets the backend up again.
C6_FailedAttemptIsReset ==
    esInitializationPromise # None => esAttempt[esInitializationPromise] # "rejected"

\* C7: search with an empty or whitespace-only query returns an empty list
\* and performs no backend operation: it starts no initialization, makes no
\* embedding call and no vector search, and is not rejected.
C7_BlankQueryTouchesNothing ==
    \A c \in KsCallIds :
        (ksCalls[c].op = "search" /\ Trim(ksCalls[c].query) = <<>>) =>
            /\ ~ksCalls[c].started
            /\ ksCalls[c].pc # "rejected"
            /\ esCalls[c].op = "none"
            /\ vsCalls[c].op = "none"

DoneBatches ==
    {c \in EsSlots : esCalls[c].op = "generateBatchEmbeddings" /\ esCalls[c].pc = "resolved"}

\* C8: generateBatchEmbeddings over N chunks with distinct ids of which K
\* fail returns successCount = results.length = N - K and errors.length = K;
\* every chunk id is in exactly one of results and errors, and no failed id
\* is in results.
C8_BatchAccounting ==
    \A c \in DoneBatches :
        LET call == esCalls[c]
            N == Len(call.chunks)
            K == Cardinality(call.failed) IN
        /\ call.successCount = Len(call.results)
        /\ Len(call.results) = N - K
        /\ Len(call.errors) = K
        /\ \A id \in Range(call.chunks) :
              Count(call.results, id) + Count(call.errors, id) = 1
        /\ call.failed \cap Range(call.results) = {}

\* a batch of more than one group returned, with failures in both groups
C8_Witness ==
    \E c \in DoneBatches :
        /\ Len(esCalls[c].chunks) > batchSize
        /\ \E a, b \in esCalls[c].failed : a[2] <= batchSize /\ b[2] > batchSize
        /\ Len(esCalls[c].results) >= 2

\* what C9 states of the result of call c, a document of N chunks of which
\* K failed to embed
PartialSuccess(c) ==
    LET N == Len(esCalls[c].chunks)
        K == Cardinality(esCalls[c].failed) IN
    /\ ksCalls[c].success = TRUE
    /\ Len(ksCalls[c].stored) = N - K
    /\ Range(ksCalls[c].stored) = Range(esCalls[c].chunks) \ esCalls[c].failed
    /\ ksCalls[c].successRate = SuccessRate(N - K, N)

C10_ExtractionFailureStops ==
    \A c \in KsCallIds :
        ksCalls[c].extraction = "failed" =>
            /\ ksCalls[c].pc = "resolved"
            /\ ksCalls[c].success = FALSE
            /\ ksCalls[c].error = "extraction"
            /\ ksCalls[c].chunks = <<>>
            /\ ksCalls[c].embeddings = <<>>
            /\ esCalls[c].op = "none"
            /\ vsCalls[c].op = "none"

\* a processDocument call whose extraction failed has returned
C10_Witness ==
    \E c \in KsCallIds :
        /\ ksCalls[c].op = "processDocument"
        /\ ksCalls[c].extraction = "failed"
        /\ ksCalls[c].pc = "resolved"

\* C11: when the timeout of a request fires, that request leaves the pending
\* table and its promise is rejected with the timeout error; every other
\* pending request stays in the table, with its timer and promise untouched.
C11_TimeoutEvictsOnlyItsRequest ==
    [][\A id \in MgrSlots :
          (reqReason[id] # "timeout" /\ reqReason'[id] = "timeout") =>
              /\ id \in pendingRequests /\ id \in timers
              /\ reqState'[id] = "rejected"
              /\ pendingRequests' = pendingRequests \ {id}
              /\ timers' = timers \ {id}
              /\ \A j \in MgrSlots \ {id} :
                    reqState'[j] = reqState[j] /\ reqReason'[j] = reqReason[j]]_vars

\* a request timed out while another one is pending with its timer armed
C11_Witness ==
    \E id, j \in MgrSlots :
        /\ reqReason[id] = "timeout" /\ reqState[id] = "rejected"
        /\ id \notin pendingRequests
        /\ j \in pendingRequests /\ j \in timers /\ reqState[j] = "pending"

\* C12: a response that arrives for an id that is not in the pending table
\* is discarded: no promise is settled, and the table, the timers and every
\* request are as before.
C12_LateResponseDiscarded ==
    [][\A id \in MgrSlots :
          (arrived[id] # "late" /\ arrived'[id] = "late") =>
              UNCHANGED <<pendingRequests, timers, reqState, reqReason>>]_vars

\* the response to a request that had timed out arrived while another
\* request was pending
C12_Witness ==
    \E id, j \in MgrSlots :
        /\ arrived[id] = "late" /\ reqReason[id] = "timeout"
        /\ j \in pendingRequests /\ reqState[j] = "pending"

\* C13: on a worker error every request pending at that moment is rejected
\* and its timer cancelled, and the pending table is empty afterwards.
C13_WorkerErrorRejectsAll ==
    [][(\E id \in MgrSlots : reqReason[id] # "worker_error" /\ reqReason'[id] = "worker_error") =>
          /\ pendingRequests' = {}
          /\ \A i \in pendingRequests :
                /\ reqState'[i] = "rejected" /\ reqReason'[i] = "worker_error"
                /\ i \notin timers']_vars

\* a worker error rejected two requests that were pending together
C13_Witness ==
    \E i, j \in MgrSlots :
        /\ i # j
        /\ reqReason[i] = "worker_error" /\ reqReason[j] = "worker_error"
        /\ reqState[i] = "rejected" /\ reqState[j] = "rejected"
        /\ pendingRequests = {}

\* C14: terminate(), in one step and in every state, rejects every pending
\* request, empties the pending table and makes isReady() false.
C14_TerminateRejectsAll ==
    [][MgrTerminate =>
          /\ pendingRequests' = {}
          /\ \A i \in pendingRequests : reqState'[i] = "rejected" /\ i \notin timers'
          /\ ~IsReady']_vars

\* terminate() was called on a ready manager while a batch request was in
\* flight
C14_Witness ==
    \E id \in MgrSlots :
        /\ reqType[id] = "GENERATE_BATCH" /\ reqReason[id] = "terminated"
        /\ \E j \in MgrSlots : reqType[j] = "INITIALIZE" /\ reqReason[j] = "response"
                                /\ reqState[j] = "resolved"
        /\ pendingRequests = {} /\ ~IsReady

\* the callbacks of the generateBatchEmbeddings calls in flight
InFlightBatchCallbacks ==
    {calls[c].cb : c \in {d \in MgrSlots : /\ calls[d].op = "generateBatchEmbeddings"
                                           /\ calls[d].pc = "await"
                                           /\ reqState[calls[d].req] = "pending"}} \ {None}

WordsOfText == splitIntoWords(chunkerText)

\* C16: for a text of at least minChunkWords words the chunks chunkText
\* returns are numbered 0..N-1 in order, and every chunk except possibly the
\* last has at least minChunkWords words.
C16_IndicesAndMinimumWords ==
    (chunkerPc # "text" /\ Len(WordsOfText) >= minChunkWords) =>
        /\ \A i \in 1..Len(chunkerChunks) : chunkerChunks[i].chunkIndex = i - 1
        /\ \A i \in 1..(Len(chunkerChunks) - 1) :
               chunkerChunks[i].wordCount >= minChunkWords

C16_Witness ==
    /\ chunkerPc # "text"
    /\ Len(WordsOfText) >= minChunkWords
    /\ Len(chunkerChunks) >= 3

\* C17: for every text and every two consecutive chunks, the character
\* overlap (endPosition of the first minus startPosition of the second) is at
\* most half the character length of the first chunk's text.
C17_OverlapAtMostHalf ==
    chunkerPc # "text" =>
        \A i \in 1..(Len(chunkerChunks) - 1) :
            2 * (chunkerChunks[i].endPosition - chunkerChunks[i + 1].startPosition)
                <= Len(chunkerChunks[i].text)

\* words of the text that lie in both chunk i and chunk i + 1
SharedWords(i) ==
    {k \in 1..Len(WordsOfText) :
        /\ WordsOfText[k].position >= chunkerChunks[i + 1].startPosition
        /\ WordsOfText[k].position < chunkerChunks[i].endPosition}

\* ceil(a / b) for b > 0
CeilDiv(a, b) == (a + b - 1) \div b

\* C18: for a text of W > maxWordsPerChunk words chunkText returns exactly
\* 1 + ceil((W - maxWordsPerChunk) / step) chunks with
\* step = maxWordsPerChunk - overlapWords; every chunk except the last has
\* exactly maxWordsPerChunk words and consecutive chunks share exactly
\* overlapWords words.
C18_ChunkCountAndOverlap ==
    (chunkerPc # "text" /\ Len(WordsOfText) > maxWordsPerChunk) =>
        /\ Len(chunkerChunks) =
               1 + CeilDiv(Len(WordsOfText) - maxWordsPerChunk,
                           maxWordsPerChunk - overlapWords)
        /\ \A i \in 1..(Len(chunkerChunks) - 1) :
               /\ chunkerChunks[i].wordCount = maxWordsPerChunk
               /\ Cardinality(SharedWords(i)) = overlapWords

C18_Witness ==
    /\ chunkerPc # "text"
    /\ Len(WordsOfText) > maxWordsPerChunk
    /\ Len(chunkerChunks) = 3
    /\ chunkerChunks[3].wordCount < maxWordsPerChunk

\* C19: a text of fewer than minChunkWords words, the empty and the
\* whitespace-only text included, gives exactly one chunk: chunkIndex 0,
\* startPosition 0, endPosition the length of the text, wordCount the number
\* of words, text the trimmed input.
C19_ShortTextIsOneChunk ==
    (chunkerPc # "text" /\ Len(WordsOfText) < minChunkWords) =>
        /\ Len(chunkerChunks) = 1
        /\ chunkerChunks[1].chunkIndex = 0
        /\ chunkerChunks[1].startPosition = 0
        /\ chunkerChunks[1].endPosition = Len(chunkerText)
        /\ chunkerChunks[1].wordCount = Len(WordsOfText)
        /\ chunkerChunks[1].text = Trim(chunkerText)

C19_Witness ==
    /\ chunkerPc # "text"
    /\ Len(WordsOfText) = 1
    /\ Len(WordsOfText) < minChunkWords
    /\ chunkerText[1] = " "
    /\ chunkerChunks[1].text # chunkerText

\* the records storeEmbeddings put in the table, in table order
StoredRecords == SelectRecords(vsRecords, {r \in Range(vsRecords) : ~IsSample(r)})

\* the chunk ids of a sequence of records or results
ChunkIdsIn(seq) == [k \in DOMAIN seq |-> seq[k].chunkId]

\* seq and other hold the same chunk ids, each as many times
SameChunkIds(seq, other) ==
    \A id \in Range(ChunkIdsIn(seq)) \cup Range(ChunkIdsIn(other)) :
        Count(ChunkIdsIn(seq), id) = Count(ChunkIdsIn(other), id)

\* C20: when storeEmbeddings has stored M records, a search with
\* minScore = 0, no documentIds and limit >= M returns all M records: one
\* result for every stored chunk id and no other.
C20_SearchReturnsAllStored == [][\A c \in VsSlots :
    (/\ vsCalls[c].op = "search" /\ vsCalls[c].pc = "query"
     /\ vsCalls'[c].pc = "resolved"
     /\ MinScoreOf(vsCalls[c].options) = 0
     /\ vsCalls[c].options.documentIds = NoDocumentIds
     /\ Len(StoredRecords) >= 1
     /\ LimitOf(vsCalls[c].options) >= Len(StoredRecords)) =>
        SameChunkIds(vsCalls'[c].results, StoredRecords)]_vars

\* the records of document id in a sequence of records
RecordsOf(records, id) == {k \in DOMAIN records : records[k].documentId = id}

\* call c completes its table.delete successfully in this step
DeleteCompletes(c) ==
    /\ vsCalls[c].op = "deleteDocument" /\ vsCalls[c].pc = "delete"
    /\ vsCalls'[c].pc = "resolved"

\* call c receives the rows of its listDocuments query in this step
ListCompletes(c) ==
    /\ vsCalls[c].op = "listDocuments" /\ vsCalls[c].pc = "list"
    /\ vsCalls'[c].pc = "resolved"

WordEnd(k) == WordsOfText[k].position + Len(WordsOfText[k].word)

\* C39: in the sliding-window path of chunkText (more than minChunkWords
\* words) every word of the text lies inside the span of at least one
\* chunk, the start offsets and the end offsets of the chunks are
\* non-decreasing along the sequence, and the endPosition of the last chunk
\* is the end offset of the last word.
C39_WindowsCoverEveryWord ==
    (chunkerPc # "text" /\ Len(WordsOfText) > minChunkWords) =>
        /\ \A k \in 1..Len(WordsOfText) :
               \E i \in 1..Len(chunkerChunks) :
                   /\ chunkerChunks[i].startPosition <= WordsOfText[k].position
                   /\ WordEnd(k) <= chunkerChunks[i].endPosition
        /\ \A i \in 1..(Len(chunkerChunks) - 1) :
               /\ chunkerChunks[i].startPosition <= chunkerChunks[i + 1].startPosition
               /\ chunkerChunks[i].endPosition <= chunkerChunks[i + 1].endPosition
        /\ chunkerChunks[Len(chunkerChunks)].endPosition = WordEnd(Len(WordsOfText))

\* a text with blanks before its first and after its last word, chunked into
\* two windows of which the second is not full
C39_Witness ==
    /\ chunkerPc # "text"
    /\ Len(WordsOfText) > maxWordsPerChunk
    /\ Len(chunkerChunks) = 2
    /\ chunkerChunks[2].wordCount < maxWordsPerChunk
    /\ chunkerText[1] = " "
    /\ chunkerText[Len(chunkerText)] = " "
    /\ chunkerChunks[2].endPosition < Len(chunkerText)

\* the records of document id in a sequence of records, in table order
RecordsOfDocument(records, id) ==
    SelectRecords(records, {r \in Range(records) : r.documentId = id})

\* the summaries of document id in the listing computed from all of records
ListingEntries(records, id) ==
    {e \in Range(GroupByDocument(records, <<>>)) : e.documentId = id}

\* C38: deleteDocument(id) removes only the records whose document id is
\* id: for every other document the records in the table, and with them its
\* listing entry and its chunk count, are the same before and after the
\* delete; a delete that fails changes no record at all.
C38_DeleteLeavesOtherDocuments == [][\A c \in VsSlots :
    /\ DeleteCompletes(c) =>
          \A other \in {r.documentId : r \in Range(vsRecords) \cup Range(vsRecords')} :
              other # vsCalls[c].documentId =>
                  /\ RecordsOfDocument(vsRecords', other)
                         = RecordsOfDocument(vsRecords, other)
                  /\ ListingEntries(vsRecords', other) = ListingEntries(vsRecords, other)
                  /\ Cardinality(RecordsOf(vsRecords', other))
                         = Cardinality(RecordsOf(vsRecords, other))
    /\ (/\ vsCalls[c].op = "deleteDocument" /\ vsCalls[c].pc = "delete"
        /\ vsCalls'[c].pc = "rejected") => vsRecords' = vsRecords]_vars

\* a delete has completed and the table holds the records of another document
C38_Witness ==
    \E c \in VsSlots :
        /\ vsCalls[c].op = "deleteDocument" /\ vsCalls[c].pc = "resolved"
        /\ RecordsOf(vsRecords, vsCalls[c].documentId) = {}
        /\ \E other \in StoreDocs :
               /\ other # vsCalls[c].documentId
               /\ Cardinality(RecordsOf(vsRecords, other)) >= 2

\* the earliest creation time among the records of document id
EarliestCreatedAt(records, id) ==
    CHOOSE t \in {records[k].createdAt : k \in RecordsOf(records, id)} :
        \A k \in RecordsOf(records, id) : t <= records[k].createdAt

\* C28: listDocuments returns exactly one summary per document id present in
\* the table; its chunkCount is the number of records of that document, its
\* createdAt the earliest creation time among them; the summaries are in
\* descending order of createdAt.
C28_ListingMatchesTable == [][\A c \in VsSlots :
    ListCompletes(c) =>
        LET listing == vsCalls'[c].results IN
        /\ {listing[k].documentId : k \in DOMAIN listing}
               = {vsRecords[k].documentId : k \in DOMAIN vsRecords}
        /\ \A j \in DOMAIN listing, k \in DOMAIN listing :
               listing[j].documentId = listing[k].documentId => j = k
        /\ \A k \in DOMAIN listing :
               /\ listing[k].chunkCount
                      = Cardinality(RecordsOf(vsRecords, listing[k].documentId))
               /\ listing[k].createdAt
                      = EarliestCreatedAt(vsRecords, listing[k].documentId)
        /\ \A k \in 1..(Len(listing) - 1) :
               listing[k].createdAt >= listing[k + 1].createdAt]_vars

\* the chunks of call c whose id has an embedding, in order
RECURSIVE WithEmbedding(_, _)
WithEmbedding(chunks, embeddings) ==
    IF chunks = <<>> THEN <<>>
    ELSE (IF Head(chunks) \in Range(embeddings) THEN <<Head(chunks)>> ELSE <<>>)
         \o WithEmbedding(Tail(chunks), embeddings)

SearchCompletes(c) ==
    /\ vsCalls[c].op = "search" /\ vsCalls[c].pc = "query"
    /\ vsCalls'[c].pc = "resolved"

\* C23: search returns at most limit results, each with score >= minScore,
\* for every limit, minScore and table.
C23_LimitAndMinScore == [][\A c \in VsSlots :
    SearchCompletes(c) =>
        /\ Len(vsCalls'[c].results) <= LimitOf(vsCalls[c].options)
        /\ \A k \in DOMAIN vsCalls'[c].results :
               vsCalls'[c].results[k].score >= MinScoreOf(vsCalls[c].options)]_vars

\* a search cut at its limit, and a search that lost a candidate to minScore
C23_Witness ==
    /\ \E c \in VsSlots :
          /\ vsCalls[c].op = "search" /\ vsCalls[c].pc = "resolved"
          /\ vsCalls[c].options.limit = 1 /\ Len(vsCalls[c].results) = 1
          /\ Len(vsRecords) >= 2
          /\ vsCalls[c].options.documentIds = NoDocumentIds
    /\ \E c \in VsSlots :
          /\ vsCalls[c].op = "search" /\ vsCalls[c].pc = "resolved"
          /\ vsCalls[c].options.minScore = 50 /\ vsCalls[c].options.limit = Undefined
          /\ vsCalls[c].options.documentIds = NoDocumentIds
          /\ vsCalls[c].results # <<>>
          /\ Len(vsCalls[c].results) < Len(vsRecords)

\* C24: when search is given documentIds, every result it returns is of a
\* document in documentIds, the empty list included.
C24_ResultsWithinDocumentIds == [][\A c \in VsSlots :
    (SearchCompletes(c) /\ vsCalls[c].options.documentIds # NoDocumentIds) =>
        \A k \in DOMAIN vsCalls'[c].results :
            vsCalls'[c].results[k].documentId \in vsCalls[c].options.documentIds]_vars

\* the calls that are inside the body of initialize()
Initializing ==
    {c \in VsSlots :
        vsCalls[c].pc \in {"connect", "tableNames", "openTable", "createTable",
                           "deleteSample"}}

\* C27: however initialize() calls interleave, the connection and the
\* open-or-create of the table are performed at most once (at most one call
\* is inside initialize(), and none once the service is initialized), and the
\* table handle, once held, is not replaced.
C27_InitializesOnce == [][
    /\ Cardinality(Initializing') <= 1
    /\ vsIsInitialized' => Initializing' = {}
    /\ vsTable # None => vsTable' = vsTable]_vars

\* the step of search that calls vectorStorageService.search
KsStartsVsSearch(c) ==
    /\ ksCalls[c].op = "search" /\ ksCalls[c].pc = "embed" /\ ksCalls'[c].pc = "vsearch"

\* C25: search hands the caller's limit and minScore to the vector search
\* unchanged when they are supplied and uses 10 and 0.3 only when they are absent
C25_SuppliedOptionsPassUnchanged ==
    [][\A c \in KsCallIds :
          KsStartsVsSearch(c) =>
              LET supplied == ksCalls[c].options
                  passed == vsCalls'[c].options
              IN /\ passed.limit = IF supplied.limit = Undefined THEN ksDefaultLimit
                                   ELSE supplied.limit
                 /\ passed.minScore = IF supplied.minScore = Undefined THEN ksDefaultMinScore
                                      ELSE supplied.minScore]_vars

\* the processDocument calls whose storeEmbeddings has completed
StoredDocuments ==
    {c \in KsCallIds : /\ ksCalls[c].op = "processDocument"
                       /\ vsCalls[c].op = "storeEmbeddings"
                       /\ vsCalls[c].pc = "resolved"}

\* C26: with processDocument calls on different documents running
\* concurrently, the table holds for each document exactly one record per
\* chunk of the document that was embedded, once its storeEmbeddings has
\* completed and none before, and every record carries the document id of the
\* chunk it was made from
C26_ConcurrentDocumentsKeepTheirRecords ==
    /\ \A c \in KsCallIds :
           DocumentRecords(c) = IF c \in StoredDocuments
                                THEN WithEmbedding(ksCalls[c].chunks, esCalls[c].results)
                                ELSE <<>>
    /\ \A k \in DOMAIN vsRecords :
           ~IsSample(vsRecords[k]) =>
               /\ vsRecords[k].documentId \in StoredDocuments
               /\ vsRecords[k].chunkId[1] = vsRecords[k].documentId

\* two documents were in storeEmbeddings at the same time, both are stored,
\* and the records of the call made second come first in the table
C26_Witness ==
    /\ StoredDocuments = {1, 2}
    /\ DocumentRecords(1) # <<>> /\ DocumentRecords(2) # <<>>
    /\ vsRecords[1].documentId = 2
    /\ ksCalls[1].pc = "resolved" /\ ksCalls[2].pc = "resolved"

\* the place of a label among the five bands
BandOf(label) ==
    CASE label = "Very high relevance" -> 4
      [] label = "High relevance" -> 3
      [] label = "Good relevance" -> 2
      [] label = "Moderate relevance" -> 1
      [] label = "Low relevance" -> 0

\* C29: the label is fixed by the score: Very high from 0.8, High in
\* [0.7, 0.8), Good in [0.6, 0.7), Moderate in [0.5, 0.6), Low below 0.5; it
\* is one of the five labels, and no lower score has a higher band
C29_RelevanceBands ==
    relevanceReason # "" =>
        /\ relevanceReason \in {"Very high relevance", "High relevance", "Good relevance",
                                 "Moderate relevance", "Low relevance"}
        /\ (relevanceReason = "Very high relevance") = (reasonScore >= 80)
        /\ (relevanceReason = "High relevance") = (70 <= reasonScore /\ reasonScore < 80)
        /\ (relevanceReason = "Good relevance") = (60 <= reasonScore /\ reasonScore < 70)
        /\ (relevanceReason = "Moderate relevance") = (50 <= reasonScore /\ reasonScore < 60)
        /\ (relevanceReason = "Low relevance") = (reasonScore < 50)
        /\ \A lower \in 0 .. reasonScore :
               BandOf(generateRelevanceReason(lower)) <= BandOf(relevanceReason)

\* a score on the edge of a band was labelled
C29_Witness ==
    /\ reasonScore = 70
    /\ relevanceReason = "High relevance"

\* C30: the mock search returns at most options.limit results, whatever
\* limit is passed, in order of non-increasing score
C30_MockSearchRespectsLimit ==
    mockCall.pc = "resolved" =>
        /\ mockCall.options.limit # Undefined =>
               Len(mockCall.results) <= mockCall.options.limit
        /\ \A k \in 1 .. Len(mockCall.results) - 1 :
               mockCall.results[k].score >= mockCall.results[k + 1].score

\* the embedding calls of batch call c that are in flight
InFlight(c) == {j \in DOMAIN esCalls[c].outcome : esCalls[c].outcome[j] = "pending"}

\* C31: within one generateBatchEmbeddings call the embedding calls in
\* flight belong to one group of at most batchSize chunks; a group starts
\* only after the delay that follows the collection of the group before it,
\* when every earlier chunk has its result or its error; the delay is taken
\* only when chunks remain, never after the last group
C31_GroupsRunInOrder ==
    [][\A c \in EsCallIds :
          esCalls'[c].op = "generateBatchEmbeddings" =>
              LET call == esCalls[c]
                  after == esCalls'[c] IN
              /\ Cardinality(InFlight(c)') <= batchSize
              /\ \A j \in InFlight(c)' : after.i < j /\ j <= after.i + batchSize
              /\ (after.pc = "group" /\ (call.pc # "group" \/ call.i # after.i)) =>
                     /\ InFlight(c) = {}
                     /\ Len(after.results) + Len(after.errors) = after.i
                     /\ after.i > 0 => call.pc = "delay"
              /\ after.pc = "delay" => after.i + batchSize < Len(after.chunks)
              /\ (call.pc = "group" /\ after.pc = "resolved") =>
                     call.i + batchSize >= Len(call.chunks)]_vars

\* the second group of a batch of more than batchSize chunks is in flight
C31_Witness ==
    \E c \in EsCallIds :
        /\ esCalls[c].op = "generateBatchEmbeddings" /\ esCalls[c].pc = "group"
        /\ esCalls[c].i = batchSize
        /\ InFlight(c) # {}
        /\ Len(esCalls[c].results) + Len(esCalls[c].errors) = batchSize

\* the requests sent and not yet settled
Unsettled == {id \in MgrSlots : reqState[id] = "pending"}

\* C33: every request sent through sendMessage is eventually settled, and
\* settled once: a settled request keeps its outcome and the reason it was
\* settled for (response, timeout, worker error, termination); the pending
\* table holds exactly the ids of the requests sent and not yet settled,
\* each with its timer
C33_RequestsSettleOnce ==
    /\ [](pendingRequests = Unsettled /\ timers = Unsettled)
    /\ [][\A id \in MgrSlots :
            /\ reqState[id] \in {"resolved", "rejected"} =>
                   /\ reqState'[id] = reqState[id]
                   /\ reqReason'[id] = reqReason[id]
            /\ (reqState[id] = "pending" /\ reqState'[id] # "pending") =>
                   /\ reqState'[id] \in {"resolved", "rejected"}
                   /\ reqReason'[id] \in {"response", "timeout", "worker_error", "terminated"}
                   /\ id \notin pendingRequests']_vars
    /\ \A id \in MgrSlots : (reqState[id] = "pending") ~> (reqState[id] # "pending")

\* one request was settled by its response and another by its timeout,
\* while a third is pending
C33_Witness ==
    \E a, b \in MgrSlots :
        /\ reqState[a] = "resolved" /\ reqReason[a] = "response"
        /\ reqState[b] = "rejected" /\ reqReason[b] = "timeout"
        /\ pendingRequests # {}

\* the Worker has posted INITIALIZED for the INITIALIZE request of call c,
\* which is waiting for it
InitializedPosted(c) ==
    /\ calls[c].op = "initialize" /\ calls[c].pc = "await"
    /\ reqState[calls[c].req] = "pending"
    /\ \E w \in alive : \E k \in DOMAIN outbox[w] :
          outbox[w][k].type = "INITIALIZED" /\ outbox[w][k].re = calls[c].req

\* initialize() of call c has resolved on the response of the Worker
ResolvedByResponse(c) ==
    /\ calls[c].op = "initialize" /\ calls[c].pc = "resolved"
    /\ calls[c].req # None
    /\ reqState[calls[c].req] = "resolved" /\ reqReason[calls[c].req] = "response"
    /\ IsReady

\* another initialize() call has failed
OtherInitializeFailed(c) ==
    \E d \in CallIds \ {c} : calls[d].op = "initialize" /\ calls[d].pc = "rejected"

\* C32: when the Worker's backend initializes and it posts INITIALIZED,
\* initialize() eventually resolves with isReady() = true, settled by that
\* response and not by the timer of the request (unless another
\* initialize(), whose Worker failed, has cleaned up meanwhile)
C32_InitializeResolvesOnResponse ==
    \A c \in CallIds :
        InitializedPosted(c) ~> (ResolvedByResponse(c) \/ OtherInitializeFailed(c))

\* C34: under every interleaving of initialize() calls at most one Worker
\* is alive, and it is the one the manager holds: a call made while an
\* INITIALIZE request is in flight creates no second Worker and orphans none
C34_OneWorkerAlive ==
    /\ Cardinality(alive) <= 1
    /\ alive \subseteq {worker}

\* the stage a percentage belongs to: 1 extraction, 2 embedding, 3 storage
StageOf(percent) == IF percent <= 20 THEN 1 ELSE IF percent <= 70 THEN 2 ELSE 3

\* C35: the percentages one processDocument call passes to its progress
\* callback are within 0..100, never decrease, and follow the stages
\* extraction, embedding, storage; 100 is reported only after storeEmbeddings
\* has completed successfully
C35_ProgressIsMonotone ==
    \A c \in KsCallIds :
        LET progress == ksCalls[c].progress IN
        /\ \A k \in DOMAIN progress : progress[k] \in 0 .. 100
        /\ \A k \in 1 .. Len(progress) - 1 :
               /\ progress[k] <= progress[k + 1]
               /\ StageOf(progress[k]) <= StageOf(progress[k + 1])
        /\ (\E k \in DOMAIN progress : progress[k] = 100) =>
               /\ vsCalls[c].op = "storeEmbeddings" /\ vsCalls[c].pc = "resolved"
               /\ progress[Len(progress)] = 100
        /\ (ksCalls[c].pc = "resolved" /\ c \in StoredDocuments) =>
               progress = <<0, 20, 30, 70, 80, 100>>

\* one call reported 100 after storing, another failed in storage and
\* stopped at 80
C35_Witness ==
    \E c, d \in KsCallIds :
        /\ ksCalls[c].pc = "resolved" /\ ksCalls[c].progress = <<0, 20, 30, 70, 80, 100>>
        /\ ksCalls[d].pc = "resolved" /\ ksCalls[d].error = "storage"
        /\ ksCalls[d].progress = <<0, 20, 30, 70, 80>>

\* the positions of the windows of windowWords words of a text
WindowPositions(words) == 0 .. Max(0, Len(words) - windowWords)

\* the number of distinct lower-case query terms the window at i contains
DistinctTermsAt(words, queryWords, i) ==
    Cardinality({q \in Range(LowerCaseWords(queryWords)) : includes(WindowAt(words, i), q)})

\* the earliest window position with the largest number of distinct terms
BestWindow(words, queryWords) ==
    CHOOSE i \in WindowPositions(words) :
        /\ \A j \in WindowPositions(words) :
               DistinctTermsAt(words, queryWords, j) <= DistinctTermsAt(words, queryWords, i)
        /\ \A j \in 0 .. i - 1 :
               DistinctTermsAt(words, queryWords, j) < DistinctTermsAt(words, queryWords, i)

\* C36: generateSnippet anchors the snippet at the window that contains the
\* largest number of distinct lower-case query terms, over every window
\* position of the text, the earliest one on a tie; the snippet begins with
\* an ellipsis exactly when the anchor is not word 0
C36_SnippetAnchoredAtBestWindow ==
    snippetCall.pc = "returned" =>
        /\ snippetCall.bestStart = BestWindow(snippetCall.words, snippetCall.queryWords)
        /\ (snippetCall.bestStart # 0) =
               (/\ Len(snippetCall.snippet) >= 3
                /\ SubSeq(snippetCall.snippet, 1, 3) = Ellipsis)

\* position n of a text is the end of a word or of the text
EndsWord(str, n) ==
    /\ n \in 1 .. Len(str)
    /\ str[n] # " "
    /\ n = Len(str) \/ str[n + 1] = " "

\* C37: truncateText returns a text of at most maxTokens x 4 characters
\* unchanged; otherwise the longest prefix that ends at a whole-word boundary
\* at or before the limit: no word is cut in half, no word that fits within
\* the limit is dropped, and the result is not longer than the limit
C37_TruncatesAtWordBoundary ==
    truncateCall.pc = "returned" =>
        LET str == truncateCall.text
            result == truncateCall.result IN
        IF Len(str) <= maxChars THEN result = str
        ELSE /\ Len(result) <= maxChars
             /\ result = SubSeq(str, 1, Len(result))
             /\ result # <<>> /\ result[Len(result)] # " " => EndsWord(str, Len(result))
             /\ \A n \in 1 .. maxChars : EndsWord(str, n) => n <= Len(result)

====
